---- MODULE Spec2Model ----
(***************************************************************************)
(* APS.MCP: the OAuth token lifecycles and the request forwarder of        *)
(* aps-auth.ts (src/unnamed/part_003).                                     *)
(*                                                                         *)
(* Time is counted in units of 60 s, so the 60_000 ms safety margin is 1   *)
(* and the 120_000 ms login timeout is 2.  JavaScript runs every           *)
(* synchronous stretch of a function to completion, so each action is the  *)
(* code between two awaits (or one callback of the event loop).            *)
(***************************************************************************)
EXTENDS Integers, Sequences, FiniteSets, TLC

\* ---------------------------------------------------------------- bounds
MaxTime == 2            \* the clock runs 0..MaxTime
NumCalls == 2           \* getApsToken calls, each with a call frame of its own
NumAttempts == 2        \* performAps3loLogin calls
NumGvCalls == 1         \* overlapping getValid3loToken call frames
MaxRequests == 2        \* requests to /callback that the listeners receive
MaxItems == 3         \* items in a listing handed to a summarizer
MaxGrants == 2          \* token pairs the endpoint grants (authorization_code, refresh_token)

\* ------------------------------------------------------- program constants
Margin == 1             \* 60_000 ms (and the 60 s taken off expires_in)
LoginTimeout == 2       \* 120_000 ms
None == [kind |-> "none"]

\* =========================================================================
\* Strings that the code inspects are sequences of characters.
\* =========================================================================
IsSpace(ch) == ch = " "

RECURSIVE TrimStart(_)
TrimStart(s) ==
    IF s = <<>> THEN s
    ELSE IF IsSpace(Head(s)) THEN TrimStart(Tail(s)) ELSE s

RECURSIVE TrimEnd(_)
TrimEnd(s) ==
    IF s = <<>> THEN s
    ELSE IF IsSpace(s[Len(s)]) THEN TrimEnd(SubSeq(s, 1, Len(s) - 1)) ELSE s

\* String.prototype.trim
Trim(s) == TrimEnd(TrimStart(s))

Absent == [given |-> FALSE]                    \* undefined
Str(s) == [given |-> TRUE, text |-> s]
DEFAULT_SCOPE == <<"r">>                       \* "data:read"
\* scope arguments a caller can pass: undefined, "", blanks, padded and plain scopes
ScopeArgs == { Absent, Str(<<>>), Str(<<" ">>), Str(<<" ", "r">>), Str(<<" ", "w", " ">>) }

\* scope?.trim() || DEFAULT_SCOPE
EffectiveScope(scope) ==
    IF ~scope.given THEN DEFAULT_SCOPE
    ELSE IF Trim(scope.text) = <<>> THEN DEFAULT_SCOPE ELSE Trim(scope.text)

\* =========================================================================
\* State
\* =========================================================================
VARIABLES
    now,          \* Date.now(), in units of 60 s
    cachedToken,  \* the process-wide slot: None or [token, expiresAt, scope]
    tokCalls,     \* getApsToken call frames
    nextToken,    \* the token endpoint: id of the next client-credentials request
    lastDone,     \* the getApsToken frame whose successful response was processed last
    dmCall,       \* the apsDmRequest call frame
    sent,         \* hosts that were sent a request carrying the Authorization header
    file,         \* ~/.aps-mcp/3lo-tokens.json: None or its JSON content
    cached3lo,    \* the in-memory session copy: None (null) or a record
    att,          \* the performAps3loLogin attempts
    gvCalls,      \* getValid3loToken call frames
    grants,       \* the token endpoint: token pairs it has granted to this client
    crashed,      \* the process ended on an uncaught exception
    ended,        \* history: how the session was last removed ("refresh", "logout"), "none" once written again
    tool,         \* the tool-call handler's invocation frame
    env,          \* APS_CLIENT_ID and APS_CLIENT_SECRET are both set
    summary       \* a summarizer call: its input and, once it has run, its outcome

tokenVars == <<cachedToken, tokCalls, nextToken, lastDone>>
dmVars == <<dmCall, sent>>
sessVars == <<file, cached3lo, att, gvCalls, grants, crashed, ended>>
toolVars == <<tool, env, summary>>
vars == <<now, cachedToken, tokCalls, nextToken, lastDone, dmCall, sent,
          file, cached3lo, att, gvCalls, grants, crashed, ended, tool, env, summary>>

Calls == 1..NumCalls
ExpiresIns == {2, 4}             \* expires_in answers of the endpoint, in units of 60 s
Statuses == {401, 500}           \* non-success statuses
Bodies == {"denied"}

IdleFrame == [pc |-> "idle"]

\* the token endpoint's access_token for request number id
AccessToken(id, scope, reqAt, ttl) ==
    [id |-> id, scope |-> scope, reqAt |-> reqAt, ttl |-> ttl]

\* lines 75-79: the cache-hit test of getApsToken
CacheHitNoScope(slot, effectiveScope, t) ==
    /\ slot # None
    /\ slot.expiresAt > t + Margin

CacheHitNoMargin(slot, effectiveScope, t) ==
    /\ slot # None
    /\ slot.expiresAt > t
    /\ slot.scope = effectiveScope

CacheHit(slot, effectiveScope, t) ==
    /\ slot # None
    /\ slot.expiresAt > t + Margin
    /\ slot.scope = effectiveScope

\* lines 102-106: the entry stored after a successful exchange
NewEntry(access_token, start, expires_in, effectiveScope) ==
    [token |-> access_token,
     expiresAt |-> start + (expires_in - Margin),
     scope |-> effectiveScope]

TokenInit ==
    /\ cachedToken = None
    /\ tokCalls = [c \in Calls |-> IdleFrame]
    /\ nextToken = 1
    /\ lastDone = 0

DmInit ==
    /\ dmCall = IdleFrame
    /\ sent = {}

\* no session file, no login attempt, no getValid3loToken call
SessInit ==
    /\ file = None
    /\ cached3lo = None
    /\ att = [a \in 1..NumAttempts |-> IdleFrame]
    /\ gvCalls = [g \in 1..NumGvCalls |-> IdleFrame]
    /\ grants = 0
    /\ crashed = FALSE
    /\ ended = "none"

\* no tool call, credentials configured
ToolInit ==
    /\ tool = IdleFrame
    /\ env = TRUE
    /\ summary = IdleFrame

Init ==
    /\ now = 0
    /\ TokenInit
    /\ DmInit
    /\ SessInit
    /\ ToolInit

\* getApsToken up to its first await: lines 73-94
GetApsTokenCall(c, scope) ==
    /\ tokCalls[c].pc = "idle"
    /\ \A d \in 1..(c - 1) : tokCalls[d].pc # "idle"    \* frames are taken in call order
    /\ LET effectiveScope == EffectiveScope(scope)
           frame == [pc |-> "fetching", arg |-> scope, scope |-> effectiveScope,
                     start |-> now]
       IN IF CacheHit(cachedToken, effectiveScope, now)
          THEN /\ tokCalls' = [tokCalls EXCEPT ![c] =
                     [frame EXCEPT !.pc = "done"] @@
                     [exch |-> 0, req |-> 0, resp |-> None,
                      res |-> [kind |-> "token", token |-> cachedToken.token]]]
               /\ UNCHANGED nextToken
          ELSE /\ tokCalls' = [tokCalls EXCEPT ![c] =
                     frame @@ [exch |-> 1, req |-> nextToken, resp |-> None, res |-> None]]
               /\ nextToken' = nextToken + 1
    /\ UNCHANGED <<now, cachedToken, lastDone, dmVars, sessVars, toolVars>>

\* a slip: the slot is kept when it holds a token of a later request
TokenResponseOkKeepNewer(c, expires_in) ==
    /\ tokCalls[c].pc = "fetching"
    /\ LET f == tokCalls[c]
           access_token == AccessToken(f.req, f.scope, f.start, expires_in)
       IN /\ cachedToken' = IF cachedToken # None /\ cachedToken.token.id > f.req
                            THEN cachedToken
                            ELSE NewEntry(access_token, f.start, expires_in, f.scope)
          /\ tokCalls' = [tokCalls EXCEPT ![c] =
                [f EXCEPT !.pc = "done",
                          !.resp = [ok |-> TRUE, expires_in |-> expires_in],
                          !.res = [kind |-> "token", token |-> access_token]]]
    /\ lastDone' = c
    /\ UNCHANGED <<now, nextToken, dmVars, sessVars, toolVars>>

\* lines 101-107: the exchange answered with a success status
TokenResponseOk(c, expires_in) ==
    /\ tokCalls[c].pc = "fetching"
    /\ LET f == tokCalls[c]
           access_token == AccessToken(f.req, f.scope, f.start, expires_in)
       IN /\ cachedToken' = NewEntry(access_token, f.start, expires_in, f.scope)
          /\ tokCalls' = [tokCalls EXCEPT ![c] =
                [f EXCEPT !.pc = "done",
                          !.resp = [ok |-> TRUE, expires_in |-> expires_in],
                          !.res = [kind |-> "token", token |-> access_token]]]
    /\ lastDone' = c
    /\ UNCHANGED <<now, nextToken, dmVars, sessVars, toolVars>>

\* a slip: the failure path also empties the slot
TokenResponseFailClears(c, status, body) ==
    /\ tokCalls[c].pc = "fetching"
    /\ tokCalls' = [tokCalls EXCEPT ![c] =
          [@ EXCEPT !.pc = "done",
                    !.resp = [ok |-> FALSE, status |-> status, body |-> body],
                    !.res = [kind |-> "error", status |-> status, body |-> body]]]
    /\ cachedToken' = None
    /\ UNCHANGED <<now, nextToken, lastDone, dmVars, sessVars, toolVars>>

\* lines 96-99: the exchange answered with a non-success status
TokenResponseFail(c, status, body) ==
    /\ tokCalls[c].pc = "fetching"
    /\ tokCalls' = [tokCalls EXCEPT ![c] =
          [@ EXCEPT !.pc = "done",
                    !.resp = [ok |-> FALSE, status |-> status, body |-> body],
                    !.res = [kind |-> "error", status |-> status, body |-> body]]]
    /\ UNCHANGED <<now, cachedToken, nextToken, lastDone, dmVars, sessVars, toolVars>>

\* line 90: fetch itself rejects (no connection)
TokenFetchRejects(c) ==
    /\ tokCalls[c].pc = "fetching"
    /\ tokCalls' = [tokCalls EXCEPT ![c] =
          [@ EXCEPT !.pc = "done", !.res = [kind |-> "neterror"]]]
    /\ UNCHANGED <<now, cachedToken, nextToken, lastDone, dmVars, sessVars, toolVars>>

Tick ==
    /\ now < MaxTime
    /\ now' = now + 1
    /\ UNCHANGED <<tokenVars, dmVars, sessVars, toolVars>>

\* =========================================================================
\* apsDmRequest (lines 126-191).  A path is a sequence of lexical pieces:
\* "http", "HTTP", "s", "S", "ftp" (letters), ":", "/", "//", "@", a host
\* name, or "seg" (any other path text).
\* =========================================================================
API_HOST == "developer.api.autodesk.com"
EVIL_HOST == "evil.example"
APS_BASE == <<"http", "s", ":", "//", API_HOST>>
SchemeWords == {"http", "HTTP", "s", "S", "ftp"}
HostNames == {API_HOST, EVIL_HOST}

PathArgs ==
    { <<"seg">>,                                             \* project/v1/hubs
      <<"/", "seg">>,                                        \* /project/v1/hubs
      <<"//", EVIL_HOST, "/", "seg">>,                       \* //evil.example/x
      <<"http", "s", ":", "//", API_HOST, "/", "seg">>,      \* https://developer.api.autodesk.com/x
      <<"http", "s", ":", "//", EVIL_HOST, "/", "seg">>,     \* https://evil.example/x
      <<"http", ":", EVIL_HOST>>,                            \* http:evil.example
      <<"http", "s", ":", "//", API_HOST, "@", EVIL_HOST, "/", "seg">>,  \* userinfo trick
      <<"http", "seg">>,                                     \* httpfoo
      <<"HTTP", "S", ":", "//", EVIL_HOST, "/", "seg">>,     \* HTTPS://evil.example/x
      <<"ftp", ":", "//", EVIL_HOST, "/", "seg">> }          \* ftp://evil.example/x

\* index of the first piece of p that is in S, 0 when there is none
RECURSIVE FirstIn(_, _, _)
FirstIn(p, S, i) ==
    IF i > Len(p) THEN 0
    ELSE IF p[i] \in S THEN i ELSE FirstIn(p, S, i + 1)

\* index of the last "@" of p, 0 when there is none
RECURSIVE LastAt(_, _)
LastAt(p, i) ==
    IF i = 0 THEN 0
    ELSE IF p[i] = "@" THEN i ELSE LastAt(p, i - 1)

From(p, i) == SubSeq(p, i, Len(p))

\* new URL(p) without a base, for the special schemes http, https and ftp:
\* letters up to the first ":", optional slashes, then the authority up to the
\* next slash; the host is what follows the last "@" of the authority.
\* ok = FALSE stands for the TypeError of an invalid URL.
ParseURL(p) ==
    LET colon == FirstIn(p, {":"}, 1)
        schemeOk == colon > 1 /\ \A i \in 1..(colon - 1) : p[i] \in SchemeWords
        afterColon == From(p, colon + 1)
        rest == IF afterColon # <<>> /\ afterColon[1] \in {"/", "//"}
                THEN Tail(afterColon) ELSE afterColon
        slash == FirstIn(rest, {"/", "//"}, 1)
        authority == IF slash = 0 THEN rest ELSE SubSeq(rest, 1, slash - 1)
        hostPart == From(authority, LastAt(authority, Len(authority)) + 1)
    IN IF schemeOk /\ Len(hostPart) = 1 /\ hostPart[1] \in HostNames
       THEN [ok |-> TRUE, host |-> hostPart[1],
             pathname |-> IF slash = 0 THEN <<"/">> ELSE From(rest, slash)]
       ELSE [ok |-> FALSE]

\* path.startsWith("http")
StartsWithHttp(p) == p # <<>> /\ p[1] = "http"

\* path.replace(/^\//, "")
StripLeadingSlash(p) ==
    IF p = <<>> THEN p
    ELSE IF p[1] = "/" THEN Tail(p)
    ELSE IF p[1] = "//" THEN <<"/">> \o Tail(p)
    ELSE p

\* lines 132-142: the host check; TRUE when the call throws before building the request
RejectsPathNoCheck(path) ==
    StartsWithHttp(path) /\ ~ParseURL(path).ok

RejectsPath(path) ==
    StartsWithHttp(path)
      /\ (~ParseURL(path).ok \/ ParseURL(path).host # ParseURL(APS_BASE).host)

\* lines 143-144: the URL that is fetched
TargetURL(path) ==
    IF StartsWithHttp(path) THEN ParseURL(path)
    ELSE ParseURL(APS_BASE \o <<"/">> \o StripLeadingSlash(path))

Methods == {"GET", "POST"}
DmStatuses == {200, 201, 204, 404}
\* values of the response's content-type header, as sequences of pieces;
\* Absent when the response has no such header
ContentTypes ==
    { Absent,
      Str(<<"application", "/", "json">>),
      Str(<<"Application", "/", "JSON">>),
      Str(<<"application", "/", "vnd.api", "+", "json">>),
      Str(<<"text", "/", "plain">>) }
RespBodies == {"", "json", "garbled"}     \* empty, parsable JSON text, other text

\* line 183: res.headers.get("content-type") ?? ""
HeaderOrEmpty(h) == IF h.given THEN h.text ELSE <<>>

\* line 183: toLowerCase()
ToLowerCase(s) ==
    [i \in 1..Len(s) |->
       IF s[i] = "Application" THEN "application"
       ELSE IF s[i] = "JSON" THEN "json"
       ELSE IF s[i] = "RVT" THEN "rvt"
       ELSE s[i]]

\* line 184: ct.includes("json")
IncludesJson(s) == \E i \in 1..Len(s) : s[i] = "json"

\* lines 185-189: JSON.parse(text) succeeds
Parses(body) == body = "json"

\* apsDmRequest up to its await of fetch: lines 132-170
DmCall(method, path) ==
    /\ dmCall.pc = "idle"
    /\ IF RejectsPath(path)
       THEN /\ dmCall' = [pc |-> "done", method |-> method, path |-> path,
                          fetched |-> FALSE, resp |-> None,
                          res |-> [kind |-> "thrown",
                                   error |-> IF ParseURL(path).ok THEN "foreign host"
                                             ELSE "TypeError"]]
            /\ UNCHANGED sent
       ELSE /\ dmCall' = [pc |-> "fetching", method |-> method, path |-> path,
                          fetched |-> TRUE, resp |-> None, res |-> None]
            /\ sent' = sent \cup {TargetURL(path).host}
    /\ UNCHANGED <<now, tokenVars, sessVars, toolVars>>

\* lines 171-190 with a JSON.parse whose exception is not caught
DmResultParseThrows(method, url, status, ct, body) ==
    IF status \notin 200..299
    THEN [kind |-> "ApsApiError", statusCode |-> status, method |-> method,
          path |-> url.pathname, responseBody |-> body]
    ELSE IF status = 204 THEN [kind |-> "marker", ok |-> TRUE, status |-> 204]
    ELSE IF body = "" THEN [kind |-> "marker", ok |-> TRUE, status |-> status]
    ELSE IF IncludesJson(ToLowerCase(HeaderOrEmpty(ct)))
         THEN IF Parses(body) THEN [kind |-> "parsed", value |-> body]
              ELSE [kind |-> "thrown", error |-> "SyntaxError"]
    ELSE [kind |-> "text", ok |-> TRUE, status |-> status, body |-> body]

\* lines 171-190: the response of the resource API
DmResult(method, url, status, ct, body) ==
    IF status \notin 200..299
    THEN [kind |-> "ApsApiError", statusCode |-> status, method |-> method,
          path |-> url.pathname, responseBody |-> body]
    ELSE IF status = 204 THEN [kind |-> "marker", ok |-> TRUE, status |-> 204]
    ELSE IF body = "" THEN [kind |-> "marker", ok |-> TRUE, status |-> status]
    ELSE IF IncludesJson(ToLowerCase(HeaderOrEmpty(ct))) /\ Parses(body)
         THEN [kind |-> "parsed", value |-> body]
    ELSE [kind |-> "text", ok |-> TRUE, status |-> status, body |-> body]

\* a slip: an error status of the resource API empties the token slot
DmResponseInvalidates(status, ct, body) ==
    /\ dmCall.pc = "fetching"
    /\ dmCall' = [dmCall EXCEPT !.pc = "done",
                     !.resp = [status |-> status, ct |-> ct, body |-> body],
                     !.res = DmResult(dmCall.method, TargetURL(dmCall.path), status, ct, body)]
    /\ cachedToken' = IF status \in 200..299 THEN cachedToken ELSE None
    /\ UNCHANGED <<now, tokCalls, nextToken, lastDone, sent, sessVars, toolVars>>

DmResponse(status, ct, body) ==
    /\ dmCall.pc = "fetching"
    /\ dmCall' = [dmCall EXCEPT !.pc = "done",
                     !.resp = [status |-> status, ct |-> ct, body |-> body],
                     !.res = DmResult(dmCall.method, TargetURL(dmCall.path), status, ct, body)]
    /\ UNCHANGED <<now, tokenVars, sent, sessVars, toolVars>>

\* line 170: fetch itself rejects
DmFetchRejects ==
    /\ dmCall.pc = "fetching"
    /\ dmCall' = [dmCall EXCEPT !.pc = "done", !.res = [kind |-> "thrown", error |-> "network"]]
    /\ UNCHANGED <<now, tokenVars, sent, sessVars, toolVars>>

DmReturn ==
    /\ dmCall.pc = "done"
    /\ dmCall' = IdleFrame
    /\ UNCHANGED <<now, tokenVars, sent, sessVars, toolVars>>

\* the forwarder on its own, started with an empty or a filled token slot
InitDm ==
    /\ now = 0
    /\ cachedToken \in {None, NewEntry(AccessToken(1, DEFAULT_SCOPE, 0, 4), 0, 4, DEFAULT_SCOPE)}
    /\ tokCalls = [c \in Calls |-> IdleFrame]
    /\ nextToken = 2
    /\ lastDone = 0
    /\ DmInit
    /\ SessInit
    /\ ToolInit

NextDm ==
    \/ \E m \in Methods, p \in PathArgs : DmCall(m, p)
    \/ \E st \in DmStatuses, ct \in ContentTypes, b \in RespBodies : DmResponse(st, ct, b)
    \/ DmFetchRejects
    \/ DmReturn

SpecDm == InitDm /\ [][NextDm]_vars

\* =========================================================================
\* Properties of the request forwarder and of the client-credentials cache
\* =========================================================================

\* the path, read as a URL of its own, names a host other than the API host
ForeignAbsolute(path) == ParseURL(path).ok /\ ParseURL(path).host # API_HOST

RejectedBeforeFetch ==
    /\ dmCall.pc = "done"
    /\ ~dmCall.fetched
    /\ dmCall.res.kind = "thrown"

Called(c) == tokCalls[c].pc = "idle" /\ tokCalls'[c].pc # "idle"

\* time left until the cached token expires as granted by expires_in,
\* counted from the clock reading of the call that fetched it
RemainingValidity == cachedToken.token.reqAt + cachedToken.token.ttl - now

SlotMatches(c) == cachedToken # None /\ cachedToken.scope = tokCalls'[c].scope

ServedFromCache(c) ==
    /\ tokCalls'[c].pc = "done"
    /\ tokCalls'[c].exch = 0
    /\ tokCalls'[c].res = [kind |-> "token", token |-> cachedToken.token]
    /\ nextToken' = nextToken

FreshExchange(c) ==
    /\ tokCalls'[c].pc = "fetching"
    /\ tokCalls'[c].exch = 1
    /\ nextToken' = nextToken + 1

\* C2 as stated: a cached token of the requested scope with more than 60 s of
\* remaining validity is returned without a request, one with 60 s or less
\* triggers a fresh exchange.
C2_SixtySecondMargin ==
    [][\A c \in Calls : (Called(c) /\ SlotMatches(c)) =>
          IF RemainingValidity > Margin THEN ServedFromCache(c) ELSE FreshExchange(c)]_vars

\* C2 amended: the 60 s margin is applied to the stored expiresAt, which is
\* already expires_in - 60 s after the fetching call read the clock; so a
\* cached token of the requested scope is returned without a request when it
\* has more than 120 s of remaining validity, and one with 120 s or less
\* triggers a fresh exchange.
C2_MarginOnStoredExpiry ==
    [][\A c \in Calls : (Called(c) /\ SlotMatches(c)) =>
          IF RemainingValidity > 2 * Margin THEN ServedFromCache(c) ELSE FreshExchange(c)]_vars

\* a call was served from the cache with 180 s of validity left, the least that is served
C2_Witness ==
    \E c \in Calls :
        /\ tokCalls[c].pc = "done"
        /\ tokCalls[c].exch = 0
        /\ tokCalls[c].res.token.reqAt + tokCalls[c].res.token.ttl - tokCalls[c].start = 3 * Margin

\* C3: a call whose effective scope (undefined, empty or blank counting as the
\* default scope) differs from the scope of a still-valid cached token performs
\* a fresh exchange and returns a token issued for its own scope, never the
\* cached one; the cache serves only a call of the same effective scope.
C3_ScopeKeyed ==
    [][\A c \in Calls :
          /\ (Called(c) /\ cachedToken # None
                /\ cachedToken.scope # EffectiveScope(tokCalls'[c].arg))
                => FreshExchange(c)
          /\ (Called(c) /\ tokCalls'[c].exch = 0)
                => cachedToken.scope = EffectiveScope(tokCalls'[c].arg)
          /\ (tokCalls'[c].pc = "done" /\ tokCalls'[c].res.kind = "token")
                => tokCalls'[c].res.token.scope = EffectiveScope(tokCalls'[c].arg)
          /\ (tokCalls'[c].pc # "idle" /\ (~tokCalls'[c].arg.given \/ tokCalls'[c].arg.text = <<>>))
                => tokCalls'[c].scope = DEFAULT_SCOPE]_vars

\* a call for another scope got its own token while the slot held a token that
\* was still valid for the first scope when the call began
C3_Witness ==
    \E c, d \in Calls :
        /\ tokCalls[c].pc = "done" /\ tokCalls[d].pc = "done"
        /\ tokCalls[c].res.kind = "token" /\ tokCalls[d].res.kind = "token"
        /\ tokCalls[c].scope = DEFAULT_SCOPE /\ ~tokCalls[c].arg.given
        /\ tokCalls[d].scope # DEFAULT_SCOPE
        /\ tokCalls[d].exch = 1
        /\ tokCalls[d].req > tokCalls[c].req /\ tokCalls[c].req > 0
        /\ tokCalls[c].res.token.reqAt + tokCalls[c].res.token.ttl - Margin
              > tokCalls[d].start + Margin

\* frame c's exchange is answered with a non-success status in this step
ExchangeFails(c) ==
    /\ tokCalls[c].pc = "fetching"
    /\ tokCalls'[c].pc = "done"
    /\ tokCalls'[c].resp # None
    /\ ~tokCalls'[c].resp.ok

\* C4: a non-success answer of the token endpoint makes the call fail with an
\* error carrying the status and the body of the answer, after one exchange
\* and no retry, and neither the call nor its failure changes the cache slot.
C4_FailedExchange ==
    [][\A c \in Calls :
          /\ ExchangeFails(c) =>
                /\ tokCalls'[c].res = [kind |-> "error",
                                       status |-> tokCalls'[c].resp.status,
                                       body |-> tokCalls'[c].resp.body]
                /\ tokCalls'[c].exch = 1
                /\ nextToken' = nextToken
                /\ cachedToken' = cachedToken
          /\ Called(c) => cachedToken' = cachedToken]_vars

\* an exchange has failed while the slot held a token
C4_Witness ==
    \E c \in Calls :
        /\ tokCalls[c].pc = "done"
        /\ tokCalls[c].res.kind = "error"
        /\ cachedToken # None

AllCompletedExchanges ==
    \A c \in Calls :
        /\ tokCalls[c].pc = "done"
        /\ tokCalls[c].exch = 1
        /\ tokCalls[c].res.kind = "token"

\* C5: when the calls that missed the cache have all completed successfully,
\* the slot holds one complete entry, token, expiresAt and scope all of the
\* exchange whose answer was processed last, and the token is one the endpoint
\* issued for that scope.
C5_LastWriterWins ==
    AllCompletedExchanges =>
        /\ lastDone \in Calls
        /\ LET f == tokCalls[lastDone]
           IN /\ cachedToken = [token |-> f.res.token,
                                expiresAt |-> f.start + f.resp.expires_in - Margin,
                                scope |-> f.scope]
              /\ f.res.token.scope = f.scope
              /\ f.res.token.id = f.req
              /\ f.req \in 1..(nextToken - 1)

\* two overlapping calls were answered in the reverse order of their requests
C5_Witness ==
    /\ AllCompletedExchanges
    /\ \E c \in Calls : tokCalls[c].req > tokCalls[lastDone].req
                          /\ tokCalls[c].start >= tokCalls[lastDone].start

\* =========================================================================
\* 3-legged OAuth: the persisted session, performAps3loLogin,
\* getValid3loToken and clear3loLogin (lines 193-445).
\* =========================================================================
Undefined == [kind |-> "undefined"]
SessionKeys == {"access_token", "refresh_token", "expires_at", "scope"}

\* the token members are the ones a token answer may lack
TokenKeys == {"access_token", "refresh_token"}
IsDefined(data, key) == key \notin TokenKeys \/ data[key] # Undefined

\* JSON.stringify(data, null, 2): a member whose value is undefined is left out
Stringify(data) ==
    [k \in {key \in SessionKeys : IsDefined(data, key)} |-> data[k]]

\* JSON.parse(text) as Aps3loTokenData: a member that is not there reads as undefined
Parse(text) ==
    [k \in SessionKeys |-> IF k \in DOMAIN text THEN text[k] ELSE Undefined]

\* lines 206-213
read3loCache == IF file = None THEN None ELSE Parse(file)

\* the token pair of grant number n; the endpoint may leave refresh_token out
Access(n) == [access |-> n]
Refresh(n) == [refresh |-> n]
RefreshAnswers(n) == {Refresh(n), Undefined}

LoginScopes == {<<"r">>}
LoginStatuses == {400}           \* non-success status of the code exchange
Attempts == 1..NumAttempts
GvCalls == 1..NumGvCalls

\* query strings of the requests that reach the listener
QueryErrors == {Absent, Str(<<>>), Str(<<"e">>)}
QueryDescs == {Absent, Str(<<"<", "&", "'">>)}
QueryCodes == {Absent, Str(<<>>), Str(<<"c">>)}
Requests ==
    [pathname : {"/callback", "/"}, error : QueryErrors,
     error_description : QueryDescs, code : QueryCodes]

\* a query value is truthy when it is present and not the empty string
Truthy(v) == v # Absent /\ v # Str(<<>>)

Pending == [state |-> "pending"]

\* a slip: a plain variable in place of the promise, so that a later call overwrites
SettleOverwrites(promise, outcome) == outcome

\* resolve / reject of the promise: only the first call settles it
Settle(promise, outcome) == IF promise.state = "pending" THEN outcome ELSE promise

Rejected(by, msg) == [state |-> "rejected", by |-> by, msg |-> msg]
Resolved(access_token) == [state |-> "resolved", by |-> "code", access_token |-> access_token]

\* the callback port is taken while some attempt's server is listening on it
PortTaken == \E b \in Attempts : att[b].pc = "active" /\ att[b].server = "listening"

\* lines 258-379: the promise executor: createServer, listen, setTimeout.
\* No 'error' listener is attached to the server, so a failed bind is an
\* uncaught exception and ends the process.
LoginStart(a, scope) ==
    /\ ~crashed
    /\ att[a].pc = "idle"
    /\ \A b \in 1..(a - 1) : att[b].pc # "idle"         \* attempts are numbered in call order
    /\ now + LoginTimeout <= MaxTime
    /\ IF PortTaken
       THEN /\ crashed' = TRUE
            /\ att' = [att EXCEPT ![a] =
                  [pc |-> "active", scope |-> scope, startedAt |-> now,
                   server |-> "unbound", timer |-> "armed", promise |-> Pending,
                   callbacks |-> 0, inflight |-> 0, page |-> None]]
       ELSE /\ att' = [att EXCEPT ![a] =
                  [pc |-> "active", scope |-> scope, startedAt |-> now,
                   server |-> "listening", timer |-> "armed", promise |-> Pending,
                   callbacks |-> 0, inflight |-> 0, page |-> None]]
            /\ UNCHANGED crashed
    /\ UNCHANGED <<now, tokenVars, dmVars, file, cached3lo, gvCalls, grants, ended, toolVars>>

\* requests to /callback that the listeners of the attempts in S have received
RECURSIVE CallbacksReceived(_)
CallbacksReceived(S) ==
    IF S = {} THEN 0
    ELSE LET b == CHOOSE x \in S : TRUE
         IN (IF att[b].pc = "active" THEN att[b].callbacks ELSE 0)
              + CallbacksReceived(S \ {b})

\* lines 11-18: one pass of String.prototype.replace with a global pattern
RECURSIVE ReplaceAll(_, _, _)
ReplaceAll(s, ch, entity) ==
    IF s = <<>> THEN <<>>
    ELSE (IF Head(s) = ch THEN entity ELSE <<Head(s)>>) \o ReplaceAll(Tail(s), ch, entity)

\* lines 11-18: the five passes, & first
escapeHtml(s) ==
    LET amp == ReplaceAll(s, "&", <<"&", "amp", ";">>)
        lt == ReplaceAll(amp, "<", <<"&", "lt", ";">>)
        gt == ReplaceAll(lt, ">", <<"&", "gt", ";">>)
        quot == ReplaceAll(gt, "\"", <<"&", "quot", ";">>)
    IN ReplaceAll(quot, "'", <<"&", "#39", ";">>)

\* page, in the actions below, is the last HTML page the listener wrote: its
\* heading and, for the page of an authorization error, the text in its body

\* lines 263-310: the request listener up to its await of fetch
HandleRequest(a, req) ==
    /\ ~crashed
    /\ att[a].pc = "active"
    /\ att[a].server = "listening"
    /\ CallbacksReceived(Attempts) < MaxRequests
    /\ LET f == [att[a] EXCEPT !.callbacks = @ + 1]
           desc == IF req.error_description # Absent
                   THEN req.error_description ELSE req.error
       IN att' = [att EXCEPT ![a] =
            IF req.pathname # "/callback"
            THEN att[a]
            ELSE IF Truthy(req.error)
            THEN [f EXCEPT !.server = "closed",
                           !.page = [h2 |-> "Authorization failed", text |-> escapeHtml(desc.text)],
                           !.promise = Settle(@, Rejected("error", desc))]
            ELSE IF ~Truthy(req.code)
            THEN [f EXCEPT !.server = "closed",
                           !.page = [h2 |-> "Missing authorization code", text |-> <<>>],
                           !.promise = Settle(@, Rejected("nocode", Absent))]
            ELSE [f EXCEPT !.inflight = @ + 1]]
    /\ UNCHANGED <<now, tokenVars, dmVars, file, cached3lo, gvCalls, grants, crashed, ended, toolVars>>

\* lines 332-337 and 421-426: the record built from a token answer
SessionRecord(access_token, refresh_token, expires_in, scope, t) ==
    [access_token |-> access_token, refresh_token |-> refresh_token,
     expires_at |-> t + (expires_in - Margin), scope |-> scope]

\* lines 326-353: the code exchange answered with a success status
ExchangeOk(a, expires_in, refresh_token) ==
    /\ ~crashed
    /\ att[a].pc = "active"
    /\ att[a].inflight > 0
    /\ grants < MaxGrants
    /\ grants' = grants + 1
    /\ ended' = "none"
    /\ LET cacheData == SessionRecord(Access(grants + 1), refresh_token,
                                      expires_in, att[a].scope, now)
       IN /\ file' = Stringify(cacheData)
          /\ cached3lo' = cacheData
          /\ att' = [att EXCEPT ![a] =
                [@ EXCEPT !.inflight = @ - 1,
                          !.server = "closed",
                          !.page = [h2 |-> "Logged in to APS", text |-> <<>>],
                          !.promise = Settle(@, Resolved(cacheData.access_token))]]
    /\ UNCHANGED <<now, tokenVars, dmVars, gvCalls, crashed, toolVars>>

\* lines 312-324: the code exchange answered with a non-success status
ExchangeFail(a, status) ==
    /\ ~crashed
    /\ att[a].pc = "active"
    /\ att[a].inflight > 0
    /\ att' = [att EXCEPT ![a] =
          [@ EXCEPT !.inflight = @ - 1, !.server = "closed",
                    !.page = [h2 |-> "Token exchange failed", text |-> <<>>],
                    !.promise = Settle(@, Rejected("exchange", status))]]
    /\ UNCHANGED <<now, tokenVars, dmVars, file, cached3lo, gvCalls, grants, crashed, ended, toolVars>>

\* lines 354-361: fetch rejects or the answer is not JSON
ExchangeThrows(a) ==
    /\ ~crashed
    /\ att[a].pc = "active"
    /\ att[a].inflight > 0
    /\ att' = [att EXCEPT ![a] =
          [@ EXCEPT !.inflight = @ - 1, !.server = "closed",
                    !.page = [h2 |-> "Error", text |-> <<>>],
                    !.promise = Settle(@, Rejected("throw", Absent))]]
    /\ UNCHANGED <<now, tokenVars, dmVars, file, cached3lo, gvCalls, grants, crashed, ended, toolVars>>

\* lines 375-378: the 2-minute timer, which is never cleared
TimerFire(a) ==
    /\ ~crashed
    /\ att[a].pc = "active"
    /\ att[a].timer = "armed"
    /\ now >= att[a].startedAt + LoginTimeout
    /\ att' = [att EXCEPT ![a] =
          [@ EXCEPT !.timer = "fired", !.server = "closed",
                    !.promise = Settle(@, Rejected("timeout", Absent))]]
    /\ UNCHANGED <<now, tokenVars, dmVars, file, cached3lo, gvCalls, grants, crashed, ended, toolVars>>

\* getValid3loToken up to its await of fetch: lines 390-413
GvCall(g) ==
    /\ ~crashed
    /\ gvCalls[g].pc = "idle"
    /\ LET loaded == IF cached3lo = None THEN read3loCache ELSE cached3lo
           frame == [pc |-> "done", exch |-> 0]
       IN IF loaded = None
          THEN /\ gvCalls' = [gvCalls EXCEPT ![g] = frame @@ [res |-> None]]
               /\ cached3lo' = loaded
               /\ UNCHANGED file
          ELSE IF loaded.expires_at > now + Margin
          THEN /\ gvCalls' = [gvCalls EXCEPT ![g] = frame @@ [res |-> loaded.access_token]]
               /\ cached3lo' = loaded
               /\ UNCHANGED file
          ELSE IF loaded.refresh_token # Undefined
          THEN /\ gvCalls' = [gvCalls EXCEPT ![g] =
                     [frame EXCEPT !.pc = "refreshing", !.exch = 1] @@ [res |-> None]]
               /\ cached3lo' = loaded
               /\ UNCHANGED file
          ELSE /\ gvCalls' = [gvCalls EXCEPT ![g] = frame @@ [res |-> None]]
               /\ cached3lo' = None
               /\ file' = None
    /\ UNCHANGED <<now, tokenVars, dmVars, att, grants, crashed, ended, toolVars>>

\* lines 415-429: the refresh answered with a success status.  Reading
\* cached3lo.scope throws when the copy was cleared meanwhile; the catch of
\* line 430 then falls through to lines 436-438.
GvRefreshOk(g, expires_in, refresh_token) ==
    /\ ~crashed
    /\ gvCalls[g].pc = "refreshing"
    /\ grants < MaxGrants
    /\ grants' = grants + 1
    /\ ended' = IF cached3lo = None THEN ended ELSE "none"
    /\ IF cached3lo = None
       THEN /\ file' = None
            /\ cached3lo' = None
            /\ gvCalls' = [gvCalls EXCEPT ![g] = [@ EXCEPT !.pc = "done", !.res = None]]
       ELSE LET data == SessionRecord(Access(grants + 1), refresh_token,
                                      expires_in, cached3lo.scope, now)
            IN /\ cached3lo' = data
               /\ file' = Stringify(data)
               /\ gvCalls' = [gvCalls EXCEPT ![g] =
                     [@ EXCEPT !.pc = "done", !.res = data.access_token]]
    /\ UNCHANGED <<now, tokenVars, dmVars, att, crashed, toolVars>>

\* lines 430-438: the refresh answered with a non-success status, or fetch rejected
GvRefreshFail(g) ==
    /\ ~crashed
    /\ gvCalls[g].pc = "refreshing"
    /\ file' = None
    /\ cached3lo' = None
    /\ ended' = "refresh"
    /\ gvCalls' = [gvCalls EXCEPT ![g] = [@ EXCEPT !.pc = "done", !.res = None]]
    /\ UNCHANGED <<now, tokenVars, dmVars, att, grants, crashed, toolVars>>

GvReturn(g) ==
    /\ ~crashed
    /\ gvCalls[g].pc = "done"
    /\ gvCalls' = [gvCalls EXCEPT ![g] = IdleFrame]
    /\ UNCHANGED <<now, tokenVars, dmVars, file, cached3lo, att, grants, crashed, ended, toolVars>>

\* lines 442-445
clear3loLogin ==
    /\ ~crashed
    /\ file' = None
    /\ cached3lo' = None
    /\ ended' = "logout"
    /\ UNCHANGED <<now, tokenVars, dmVars, att, gvCalls, grants, crashed, toolVars>>

\* a session file left by an earlier run of the server
EarlierSession ==
    SessionRecord(Access(0), Refresh(0), 4, <<"r">>, 0)

InitLogin ==
    /\ now = 0
    /\ TokenInit
    /\ DmInit
    /\ file \in {None, Stringify(EarlierSession)}
    /\ cached3lo = None
    /\ att = [a \in Attempts |-> IdleFrame]
    /\ gvCalls = [g \in GvCalls |-> IdleFrame]
    /\ grants = 0
    /\ crashed = FALSE
    /\ ended = "none"
    /\ ToolInit

NextLogin ==
    \/ \E a \in Attempts, sc \in LoginScopes : LoginStart(a, sc)
    \/ \E a \in Attempts, req \in Requests : HandleRequest(a, req)
    \/ \E a \in Attempts, e \in ExpiresIns, r \in RefreshAnswers(grants + 1) :
          ExchangeOk(a, e, r)
    \/ \E a \in Attempts, st \in LoginStatuses : ExchangeFail(a, st)
    \/ \E a \in Attempts : ExchangeThrows(a)
    \/ \E a \in Attempts : TimerFire(a)
    \/ clear3loLogin
    \/ Tick

\* the interactive login on its own
SpecLogin == InitLogin /\ [][NextLogin]_vars

\* the login together with the callers of getValid3loToken
NextSession ==
    \/ NextLogin
    \/ \E g \in GvCalls : GvCall(g)
    \/ \E g \in GvCalls, e \in ExpiresIns, r \in RefreshAnswers(grants + 1) :
          GvRefreshOk(g, e, r)
    \/ \E g \in GvCalls : GvRefreshFail(g)
    \/ \E g \in GvCalls : GvReturn(g)

SpecSession == InitLogin /\ [][NextSession]_vars

\* timers and the clock are served by the event loop
FairLogin ==
    /\ SpecLogin
    /\ WF_vars(Tick)
    /\ \A a \in Attempts : WF_vars(TimerFire(a))

\* =========================================================================
\* Properties of the interactive login and of the session
\* =========================================================================
Settled(f) == f.pc = "active" /\ f.promise.state # "pending"

\* the promise of attempt a is settled in this step
Settles(a) ==
    /\ att[a].pc = "active"
    /\ att[a].promise.state = "pending"
    /\ att'[a].promise.state # "pending"

\* C6 as stated: a login settles by one of three outcomes, the exchanged code,
\* the provider's error, or the timeout, with the listener closed.
C6_ThreeOutcomes ==
    \A a \in Attempts :
        Settled(att[a]) =>
            /\ att[a].promise.by \in {"code", "error", "timeout"}
            /\ att[a].server = "closed"

\* C6 amended: a login settles at most once, and when it settles it is by one
\* of five outcomes: (a) a callback with a code whose exchange succeeds (tokens
\* persisted, resolved with the access token), (b) a callback with an error
\* parameter (rejected with the provider's description), (c) the 2-minute
\* timeout, (d) a callback with neither an error nor a code (rejected), (e) a
\* code exchange that fails or throws (rejected); the listener has been closed
\* by the time the promise settles.
C6_SettlesOnceFiveOutcomes ==
    [][\A a \in Attempts :
          /\ Settled(att[a]) => att'[a].promise = att[a].promise
          /\ Settled(att'[a]) =>
                /\ att'[a].server = "closed"
                /\ att'[a].promise.by \in {"code", "error", "timeout", "nocode",
                                           "exchange", "throw"}
          /\ (Settles(a) /\ att'[a].promise.state = "resolved") =>
                /\ att'[a].promise.by = "code"
                /\ cached3lo' # None
                /\ file' = Stringify(cached3lo')
                /\ att'[a].promise.access_token = cached3lo'.access_token
                /\ att[a].inflight > 0
          /\ (Settles(a) /\ att'[a].promise.state = "rejected") =>
                /\ att'[a].promise.by # "code"
                /\ att'[a].promise.by = "timeout" =>
                      now >= att[a].startedAt + LoginTimeout
                /\ att'[a].promise.by = "error" => att'[a].promise.msg # Absent
                /\ att'[a].promise.by \in {"exchange", "throw"} => att[a].inflight > 0]_vars

\* the timer fired after the login had been resolved, and the outcome stayed
C6_Witness ==
    \E a \in Attempts :
        /\ Settled(att[a])
        /\ att[a].promise.state = "resolved"
        /\ att[a].timer = "fired"

\* C7: once a first request to /callback has been received, a further request
\* that reaches the listener starts no token exchange, writes no session and
\* does not change the outcome of the login.
C7_OnlyFirstCallback ==
    [][\A a \in Attempts :
          (att[a].pc = "active" /\ att[a].callbacks >= 1
             /\ att'[a].callbacks = att[a].callbacks + 1) =>
                /\ att'[a].inflight = att[a].inflight
                /\ att'[a].promise = att[a].promise
                /\ file' = file
                /\ cached3lo' = cached3lo]_vars

\* C8: a login that is rejected to its caller leaves the session file and the
\* in-memory copy as they are, in the step that rejects it and in every later
\* step of the attempt.  Stated for the attempts whose listener received a
\* single callback, so that a violation does not rest on a second callback.
C8_RejectedLeavesSession ==
    [][\A a \in Attempts :
          (att'[a] # att[a] /\ att'[a].promise.state = "rejected"
             /\ att'[a].callbacks <= 1) =>
                (file' = file /\ cached3lo' = cached3lo)]_vars

\* C9: every login attempt eventually settles.
C9_EveryAttemptSettles ==
    \A a \in Attempts :
        (att[a].pc = "active") ~> Settled(att[a])

\* frame g starts a getValid3loToken call in this step
GvCalled(g) == gvCalls[g].pc = "idle" /\ gvCalls'[g].pc # "idle"

\* the session the call finds: the in-memory copy, else the file
SessionFound == IF cached3lo = None THEN read3loCache ELSE cached3lo

\* C10: getValid3loToken returns none without a request when no session
\* exists, returns the persisted access token without a request when it has
\* more than the 60 s margin left, and otherwise performs exactly one
\* refresh-token exchange.
C10_ExactlyOneRefresh ==
    [][\A g \in GvCalls :
          /\ GvCalled(g) =>
                IF SessionFound = None
                THEN gvCalls'[g] = [pc |-> "done", exch |-> 0, res |-> None]
                ELSE IF SessionFound.expires_at > now + Margin
                THEN gvCalls'[g] = [pc |-> "done", exch |-> 0,
                                    res |-> SessionFound.access_token]
                ELSE gvCalls'[g].pc = "refreshing" /\ gvCalls'[g].exch = 1
          /\ gvCalls[g].pc = "refreshing" =>
                (gvCalls'[g].pc \in {"refreshing", "done"} /\ gvCalls'[g].exch = 1)]_vars

\* frame g's refresh exchange is answered with a success status in this step
RefreshSucceeds(g) ==
    /\ gvCalls[g].pc = "refreshing"
    /\ gvCalls'[g].pc = "done"
    /\ grants' = grants + 1

\* frame g's refresh exchange fails in this step (non-success status or a throw)
RefreshFails(g) ==
    /\ gvCalls[g].pc = "refreshing"
    /\ gvCalls'[g].pc = "done"
    /\ grants' = grants

\* C11: when the refresh exchange of getValid3loToken succeeds, the new access
\* token and the new refresh token replace the old pair in memory and in the
\* persisted record, the scope stays as it was, and the call returns the new
\* access token.
C11_RefreshReplacesPair ==
    [][\A g \in GvCalls :
          RefreshSucceeds(g) =>
              /\ cached3lo' # None
              /\ cached3lo'.access_token = Access(grants')
              /\ cached3lo'.refresh_token = Refresh(grants')
              /\ cached3lo # None => cached3lo'.scope = cached3lo.scope
              /\ file' # None
              /\ Parse(file') = cached3lo'
              /\ gvCalls'[g].res = Access(grants')]_vars

NoSession == file = None /\ cached3lo = None

\* no listener has received more than one callback
SingleCallbacks == \A a \in Attempts : att[a].pc = "active" => att[a].callbacks <= 1

\* a login succeeds in this step: its promise is resolved
LoginSucceeds == \E a \in Attempts : Settles(a) /\ att'[a].promise.state = "resolved"

\* the session stays removed unless a login succeeds in this step, and a
\* getValid3loToken call returns none without a request to the token endpoint
StaysLoggedOut ==
    /\ NoSession
    /\ (file' # None \/ cached3lo' # None) => LoginSucceeds
    /\ \A g \in GvCalls :
          GvCalled(g) => gvCalls'[g] = [pc |-> "done", exch |-> 0, res |-> None]

\* C12: when the refresh exchange fails, the call returns none (it does not
\* throw), the session file is deleted and the in-memory copy cleared, and
\* every later getValid3loToken call returns none until a new login succeeds.
\* The second part is stated for logins whose listener received a single
\* callback, so that a violation does not rest on a second callback.
C12_FailedRefreshClears ==
    [][/\ \A g \in GvCalls :
             RefreshFails(g) =>
                 /\ gvCalls'[g].res = None
                 /\ file' = None
                 /\ cached3lo' = None
       /\ (ended = "refresh" /\ SingleCallbacks) => StaysLoggedOut]_vars

\* C13: after clear3loLogin the session file does not exist and the in-memory
\* copy is empty, and every later getValid3loToken call returns none without
\* contacting the token endpoint until a new login succeeds.  The second
\* part is stated for logins whose listener received a single callback.
C13_LogoutClears ==
    [][/\ clear3loLogin => (file' = None /\ cached3lo' = None)
       /\ (ended = "logout" /\ SingleCallbacks) => StaysLoggedOut]_vars

\* C14: whenever a session record exists, in memory or persisted, it holds a
\* refresh token; the record loses it only by being removed as a whole.
C14_RefreshTokenRetained ==
    /\ cached3lo # None => cached3lo.refresh_token # Undefined
    /\ file # None => Parse(file).refresh_token # Undefined

\* =========================================================================
\* The tool-call handler (src/src/index.ts) and its helpers
\* (src/src/aps-helpers.ts, src/unnamed/part_005).  An argument is Absent,
\* a string Str(pieces) or a value that is not a string.
\* =========================================================================
NotString == [given |-> TRUE, number |-> 7]
IsString(v) == v.given /\ "text" \in DOMAIN v

\* JavaScript's !v for these values
Falsy(v) == ~v.given \/ (IsString(v) /\ v.text = <<>>)

\* s.startsWith(prefix)
StartsWith(s, prefix) ==
    Len(s) >= Len(prefix) /\ SubSeq(s, 1, Len(prefix)) = prefix

\* path.includes("..")
IncludesDotDot(s) == \E i \in 1..(Len(s) - 1) : s[i] = "." /\ s[i + 1] = "."

\* outcomes of a validator: null, a message, or a TypeError of a method call on a non-string
Pass == [kind |-> "pass"]
Reject(text) == [kind |-> "reject", text |-> text]
Throws(error) == [kind |-> "throw", error |-> error]

\* /^(hubs|projects|folders|items|versions)\b/.test(path)
MissingVersionPrefix(s) ==
    /\ s # <<>>
    /\ s[1] \in {"hubs", "items"}
    /\ (Len(s) = 1 \/ s[2] \in {"/", "//", ":", "@", ".", "+"})

\* aps-helpers.ts, lines 419-426, without the '..' test
validatePathNoTraversalTest(path) ==
    IF Falsy(path) \/ ~IsString(path) THEN Reject("path is required")
    ELSE IF MissingVersionPrefix(path.text) THEN Reject("missing version prefix")
    ELSE Pass

\* aps-helpers.ts, lines 419-426
validatePath(path) ==
    IF Falsy(path) \/ ~IsString(path) THEN Reject("path is required")
    ELSE IF IncludesDotDot(path.text) THEN Reject("path must not contain '..'")
    ELSE IF MissingVersionPrefix(path.text) THEN Reject("missing version prefix")
    ELSE Pass

\* part_005, lines 265-270
validateIssuesPath(path) ==
    IF Falsy(path) \/ ~IsString(path) THEN Reject("path is required")
    ELSE IF IncludesDotDot(path.text) THEN Reject("path must not contain '..'")
    ELSE Pass

\* aps-helpers.ts, lines 428-450: required, then id.startsWith(prefix)
validatePrefixed(id, prefix, field) ==
    IF Falsy(id) THEN Reject(field \o " is required")
    ELSE IF ~IsString(id) THEN Throws("TypeError")
    ELSE IF ~StartsWith(id.text, prefix) THEN Reject(field \o " has the wrong prefix")
    ELSE Pass

validateHubId(id) == validatePrefixed(id, <<"b", ".">>, "hub_id")
validateProjectId(id) == validatePrefixed(id, <<"b", ".">>, "project_id")
validateFolderId(id) == validatePrefixed(id, <<"urn", ":">>, "folder_id")
validateItemId(id) == validatePrefixed(id, <<"urn", ":">>, "item_id")

\* part_005, lines 255-263
validateIssuesProjectId(id) == IF Falsy(id) THEN Reject("project_id is required") ELSE Pass
validateIssueId(id) == IF Falsy(id) THEN Reject("issue_id is required") ELSE Pass

\* a required field of the handler: if (!v) return fail(...)
required(v, field) == IF Falsy(v) THEN Reject(field \o " is required") ELSE Pass

\* part_005, lines 69-71: projectId.replace(/^b\./, ""), a TypeError on a non-string
toIssuesProjectId(projectId) ==
    IF ~IsString(projectId) THEN Throws("TypeError")
    ELSE IF StartsWith(projectId.text, <<"b", ".">>)
         THEN [kind |-> "value", text |-> SubSeq(projectId.text, 3, Len(projectId.text))]
    ELSE [kind |-> "value", text |-> projectId.text]

\* the first verdict of a sequence of checks that is not a pass
RECURSIVE FirstFailure(_)
FirstFailure(checks) ==
    IF checks = <<>> THEN Pass
    ELSE IF Head(checks) # Pass THEN Head(checks)
    ELSE FirstFailure(Tail(checks))

\* the tools of handleTool, and a name that is none of them
RawTools == {"aps_dm_request", "aps_issues_request"}
DocTools == {"aps_docs", "aps_issues_docs"}
ToolNames ==
    RawTools \cup DocTools
      \cup {"aps_get_token", "aps_list_hubs", "aps_list_projects", "aps_get_top_folders",
            "aps_get_folder_contents", "aps_get_item_details", "aps_get_folder_tree",
            "aps_issues_get_types", "aps_issues_list", "aps_issues_get",
            "aps_issues_create", "aps_issues_update",
            "aps_issues_get_comments", "aps_issues_create_comment",
            "no_such_tool"}

\* the arguments the tools read, all absent
NoArgs ==
    [n \in {"hub_id", "project_id", "folder_id", "item_id", "issue_id", "path",
            "method", "max_depth", "title", "issue_subtype_id", "status", "body"} |-> Absent]

ToolPaths ==
    { Absent, NotString, Str(<<>>),
      Str(<<"seg">>),                                        \* project/v1/hubs
      Str(<<".", ".", "/", "seg">>),                         \* ../etc
      Str(<<"seg", "/", ".", ".", "/", "seg">>),             \* a/../b
      Str(<<"seg", ".", ".", "seg">>),                       \* a..b
      Str(<<"seg", "/", ".", "/", "seg">>),                  \* a/./b
      Str(<<"hubs">>),                                       \* hubs
      Str(<<"hubs", "/", "seg">>),                           \* hubs/x
      Str(<<"hubs", "seg">>),                                \* hubsx
      Str(<<"http", "s", ":", "//", API_HOST, "/", "seg">>),
      Str(<<"http", "s", ":", "//", EVIL_HOST, "/", ".", ".", "/", "seg">>),
      Str(<<"http", "s", ":", "//", EVIL_HOST, "/", "seg">>) }

\* the argument records a caller passes to each tool
ArgsOf(name) ==
    LET BIds == {Absent, NotString, Str(<<"x">>), Str(<<"b", ".", "x">>)}
        ProjectIds == {Str(<<>>), Str(<<"b", "x">>), Str(<<"b", ".", "x">>)}
        UrnIds == {Absent, Str(<<"x">>), Str(<<"urn", ":", "x">>)}
        IssueIds == {Absent, Str(<<"x">>)}
        Texts == {Absent, Str(<<"x">>)}
        MethodArgs == {Absent, Str(<<"POST">>)}
        DepthArgs == {Absent, [given |-> TRUE, number |-> 1, half |-> TRUE]}
                        \cup {[given |-> TRUE, number |-> n] : n \in {0 - 1, 0, 1, 2, 9}}
    IN
    CASE name = "aps_list_projects" ->
           {[NoArgs EXCEPT !.hub_id = h] : h \in BIds}
      [] name = "aps_get_top_folders" ->
           {[NoArgs EXCEPT !.hub_id = h, !.project_id = q] : h \in BIds, q \in BIds}
      [] name = "aps_get_folder_contents" ->
           {[NoArgs EXCEPT !.project_id = q, !.folder_id = f] : q \in ProjectIds, f \in UrnIds}
      [] name = "aps_get_folder_tree" ->
           {[NoArgs EXCEPT !.project_id = q, !.folder_id = f, !.max_depth = d]
              : q \in {Absent, Str(<<"b", ".", "x">>)}, f \in UrnIds, d \in DepthArgs}
      [] name = "aps_get_item_details" ->
           {[NoArgs EXCEPT !.project_id = q, !.item_id = f] : q \in BIds, f \in UrnIds}
      [] name \in RawTools ->
           {[NoArgs EXCEPT !.path = q, !.method = m] : q \in ToolPaths, m \in MethodArgs}
      [] name \in {"aps_issues_get_types", "aps_issues_list"} ->
           {[NoArgs EXCEPT !.project_id = q] : q \in BIds \cup ProjectIds}
      [] name \in {"aps_issues_get", "aps_issues_get_comments"} ->
           {[NoArgs EXCEPT !.project_id = q, !.issue_id = i] : q \in BIds, i \in IssueIds}
      [] name = "aps_issues_create" ->
           {[NoArgs EXCEPT !.project_id = q, !.title = t, !.issue_subtype_id = u, !.status = v]
              : q \in BIds, t \in Texts \cup {Str(<<>>)}, u \in Texts, v \in Texts}
      [] name = "aps_issues_update" ->
           {[NoArgs EXCEPT !.project_id = q, !.issue_id = i, !.title = t, !.status = v]
              : q \in BIds, i \in IssueIds, t \in Texts, v \in Texts}
      [] name = "aps_issues_create_comment" ->
           {[NoArgs EXCEPT !.project_id = q, !.issue_id = i, !.body = t]
              : q \in BIds, i \in IssueIds, t \in Texts \cup {Str(<<>>)}}
      [] OTHER -> {NoArgs}

\* index.ts, lines 83-99: the two result shapes
ok(text) == [content |-> text]
fail(text) == [content |-> text, isError |-> TRUE]
Message(m) == [what |-> "message", message |-> m]

\* what handleTool does: it returns a result or throws
Returned(result) == [kind |-> "returned", result |-> result]
Thrown(err) == [kind |-> "thrown", err |-> err]
Error(message) == [kind |-> "Error", message |-> message]

\* aps-helpers.ts, lines 347-380: the statuses of ERROR_HINTS
HintStatuses == {400, 401, 403, 404, 409, 429, 500, 503}

\* aps-helpers.ts, lines 382-389
statusText(statusCode) ==
    CASE statusCode = 400 -> "Bad Request"
      [] statusCode = 401 -> "Unauthorized"
      [] statusCode = 403 -> "Forbidden"
      [] statusCode = 404 -> "Not Found"
      [] statusCode = 409 -> "Conflict"
      [] statusCode = 429 -> "Too Many Requests"
      [] statusCode = 500 -> "Internal Server Error"
      [] statusCode = 503 -> "Service Unavailable"
      [] OTHER -> "Error"

\* response bodies of the tool layer: those of the forwarder and a text of
\* more than 500 characters that is not JSON
ToolBodies == RespBodies \cup {"longtext"}
Substring500(body) == IF body = "longtext" THEN "first 500 characters of longtext" ELSE body

\* aps-helpers.ts, lines 391-415 without the lookup in ERROR_HINTS
getErrorContextNoHints(statusCode, method, path, responseBody) ==
    [error |-> <<statusCode, statusText(statusCode)>>,
     method |-> method,
     path |-> path,
     likely_cause |-> Absent,
     fix |-> Absent,
     api_error |-> IF responseBody = "" THEN Absent
                   ELSE IF Parses(responseBody) THEN [given |-> TRUE, parsed |-> responseBody]
                   ELSE [given |-> TRUE, text |-> Substring500(responseBody)]]

\* aps-helpers.ts, lines 391-415
getErrorContext(statusCode, method, path, responseBody) ==
    [error |-> <<statusCode, statusText(statusCode)>>,
     method |-> method,
     path |-> path,
     likely_cause |-> IF statusCode \in HintStatuses THEN Str(<<"cause of", statusCode>>) ELSE Absent,
     fix |-> IF statusCode \in HintStatuses THEN Str(<<"fix for", statusCode>>) ELSE Absent,
     api_error |-> IF responseBody = "" THEN Absent
                   ELSE IF Parses(responseBody) THEN [given |-> TRUE, parsed |-> responseBody]
                   ELSE [given |-> TRUE, text |-> Substring500(responseBody)]]

\* index.ts, lines 96-99
richError(err) ==
    fail([what |-> "diagnostic",
          ctx |-> getErrorContext(err.statusCode, err.method, err.path, err.responseBody)])

\* index.ts, lines 1166-1176 without the catch clause: an exception leaves the handler
HandlerNoCatch(outcome) ==
    IF outcome.kind = "returned" THEN outcome.result
    ELSE [escaped |-> outcome.err]

\* index.ts, lines 1166-1176: the result the handler hands to the protocol layer
Handler(outcome) ==
    IF outcome.kind = "returned" THEN outcome.result
    ELSE IF outcome.err.kind = "ApsApiError" THEN richError(outcome.err)
    ELSE fail(Message("Error: " \o outcome.err.message))

\* the argument checks a tool makes before it asks for a token, in the order of the code
Converts(projectId) ==
    IF toIssuesProjectId(projectId).kind = "throw" THEN toIssuesProjectId(projectId) ELSE Pass

PreCheck(name, args) ==
    CASE name = "aps_dm_request" -> validatePath(args.path)
      [] name = "aps_issues_request" -> validateIssuesPath(args.path)
      [] name = "aps_list_projects" -> validateHubId(args.hub_id)
      [] name = "aps_get_top_folders" ->
           FirstFailure(<<validateHubId(args.hub_id), validateProjectId(args.project_id)>>)
      [] name \in {"aps_get_folder_contents", "aps_get_folder_tree"} ->
           FirstFailure(<<validateProjectId(args.project_id), validateFolderId(args.folder_id)>>)
      [] name = "aps_get_item_details" ->
           FirstFailure(<<validateProjectId(args.project_id), validateItemId(args.item_id)>>)
      [] name \in {"aps_issues_get_types", "aps_issues_list"} ->
           FirstFailure(<<validateIssuesProjectId(args.project_id), Converts(args.project_id)>>)
      [] name \in {"aps_issues_get", "aps_issues_get_comments", "aps_issues_update"} ->
           FirstFailure(<<validateIssuesProjectId(args.project_id), validateIssueId(args.issue_id),
                          Converts(args.project_id)>>)
      [] name = "aps_issues_create" ->
           FirstFailure(<<validateIssuesProjectId(args.project_id), required(args.title, "title"),
                          required(args.issue_subtype_id, "issue_subtype_id"),
                          required(args.status, "status"), Converts(args.project_id)>>)
      [] name = "aps_issues_create_comment" ->
           FirstFailure(<<validateIssuesProjectId(args.project_id), validateIssueId(args.issue_id),
                          required(args.body, "body"), Converts(args.project_id)>>)
      [] name \notin ToolNames \ {"no_such_tool"} -> Reject("Unknown tool")
      [] OTHER -> Pass

\* index.ts, lines 1068-1085: the body of an update, built after the token was awaited
NoFieldsToUpdate(args) == ~args.title.given /\ ~args.status.given

PostCheck(name, args) ==
    IF name = "aps_issues_update" /\ NoFieldsToUpdate(args)
    THEN Reject("No fields to update")
    ELSE Pass

\* tools that return without a token
NeedsToken(name) == name \notin DocTools \cup {"no_such_tool"}

\* encodeURIComponent(id)
encodeURIComponent(id) ==
    [i \in 1..Len(id) |->
       IF id[i] = ":" THEN "%3A" ELSE IF id[i] \in {"/", "//"} THEN "%2F" ELSE id[i]]

ContentsPath(projectId, folderId) ==
    <<"seg", "/">> \o projectId \o <<"/">> \o encodeURIComponent(folderId) \o <<"/", "contents">>
FolderPath(projectId, folderId) ==
    <<"seg", "/">> \o projectId \o <<"/">> \o encodeURIComponent(folderId)

\* the method and path of the first request of a tool whose checks passed
FirstRequest(name, args) ==
    LET pid == toIssuesProjectId(args.project_id).text
        issue == args.issue_id.text
    IN CASE name \in RawTools ->
              [method |-> IF args.method.given THEN args.method.text[1] ELSE "GET",
               path |-> args.path.text]
         [] name = "aps_list_hubs" -> [method |-> "GET", path |-> <<"seg">>]
         [] name = "aps_list_projects" ->
              [method |-> "GET", path |-> <<"seg", "/">> \o args.hub_id.text]
         [] name = "aps_get_top_folders" ->
              [method |-> "GET",
               path |-> <<"seg", "/">> \o args.hub_id.text \o <<"/">> \o args.project_id.text]
         [] name \in {"aps_get_folder_contents", "aps_get_folder_tree"} ->
              [method |-> "GET", path |-> ContentsPath(args.project_id.text, args.folder_id.text)]
         [] name = "aps_get_item_details" ->
              [method |-> "GET",
               path |-> <<"seg", "/">> \o args.project_id.text \o <<"/">>
                          \o encodeURIComponent(args.item_id.text)]
         [] name \in {"aps_issues_get_types", "aps_issues_list"} ->
              [method |-> "GET", path |-> <<"seg", "/">> \o pid]
         [] name \in {"aps_issues_get", "aps_issues_get_comments"} ->
              [method |-> "GET", path |-> <<"seg", "/">> \o pid \o <<"/">> \o issue]
         [] name = "aps_issues_create" ->
              [method |-> "POST", path |-> <<"seg", "/">> \o pid]
         [] name = "aps_issues_update" ->
              [method |-> "PATCH", path |-> <<"seg", "/">> \o pid \o <<"/">> \o issue]
         [] name = "aps_issues_create_comment" ->
              [method |-> "POST", path |-> <<"seg", "/">> \o pid \o <<"/">> \o issue]

\* ---- buildFolderTree (aps-helpers.ts, lines 276-343) ----
\* The folders the API serves: a function from folder id to the items of its
\* contents listing.  An item is a folder or a file; its displayName may be missing.
RootId == <<"urn", ":", "x">>
FolderItem(id, displayName) == [type |-> "folders", id |-> id, displayName |-> displayName]
FileItem == [type |-> "items", id |-> <<"urn", ":", "f">>, displayName |-> Str(<<"f">>)]
NoFolders == [i \in {RootId, <<"urn", ":", "a">>, <<"urn", ":", "b">>} |-> <<>>]
Worlds ==
    LET FolderA == <<"urn", ":", "a">>
        FolderB == <<"urn", ":", "b">>
    IN { NoFolders,
         [i \in DOMAIN NoFolders |->
            IF i = RootId
            THEN <<FileItem, FolderItem(FolderA, Str(<<"a">>)), FolderItem(FolderB, Absent)>>
            ELSE IF i = FolderA THEN <<FolderItem(FolderB, Str(<<"b">>)), FileItem>>
            ELSE <<FileItem>>],
         [i \in DOMAIN NoFolders |->
            IF i = RootId THEN <<FolderItem(RootId, Str(<<"x">>))>> ELSE <<>>] }

\* index.ts, line 879: Math.min(Math.max(Number(args.max_depth) || 3, 1), 5).
\* A JavaScript number is kept as its whole part and whether one half is
\* added to it: [number |-> 1, half |-> TRUE] is 1.5.  Nothing rounds it.
ClampDepth(v) ==
    LET isNumber == v.given /\ "number" \in DOMAIN v
        half == isNumber /\ "half" \in DOMAIN v
        n == IF isNumber /\ (v.number # 0 \/ half)
             THEN [number |-> v.number, half |-> half]
             ELSE [number |-> 3, half |-> FALSE]
        atLeastOne == IF n.number >= 1 THEN n ELSE [number |-> 1, half |-> FALSE]
    IN IF atLeastOne.number < 5 THEN atLeastOne ELSE [number |-> 5, half |-> FALSE]

\* one activation of buildFolderTree: the folder, its depth, the items not
\* yet visited (the first one is the folder being expanded by a recursive
\* call, if any), and the node under construction
TreeFrame(id, depth) ==
    [id |-> id, depth |-> depth, items |-> <<>>, children |-> <<>>, fileCount |-> 0]

\* lines 336-342: the node an activation returns
TreeNode(f, name) ==
    [name |-> name, id |-> f.id, type |-> "folder",
     children |-> IF Len(f.children) > 0 THEN [given |-> TRUE, list |-> f.children] ELSE Absent,
     file_count |-> f.fileCount]

\* lines 305-310: a folder at the depth limit
Placeholder(item) ==
    [name |-> IF item.displayName.given THEN item.displayName.text ELSE <<"(unknown)">>,
     id |-> item.id, type |-> "folder"]

\* line 293 with a limit that is one too high
ExpandsOneDeeper(_currentDepth, maxDepth) ==
    2 * _currentDepth < 2 * maxDepth.number + (IF maxDepth.half THEN 1 ELSE 0)

\* line 293: a sub-folder is expanded by a recursive call
Expands(_currentDepth, maxDepth) ==
    2 * _currentDepth < 2 * maxDepth.number + (IF maxDepth.half THEN 1 ELSE 0) - 2

\* lines 290-315 and 336-342: run the activations on the stack up to the next
\* request: "contents" for the folder pushed last, "name" for the root
RECURSIVE Advance(_, _)
Advance(stack, maxDepth) ==
    LET n == Len(stack)
        f == stack[n]
    IN IF f.items = <<>>
       THEN IF n = 1 THEN [stack |-> stack, next |-> "name"]
            ELSE LET parent == stack[n - 1]
                     item == Head(parent.items)
                     child == TreeNode(f, IF item.displayName.given THEN item.displayName.text
                                          ELSE <<"(unknown)">>)
                 IN Advance(Append(SubSeq(stack, 1, n - 2),
                                   [parent EXCEPT !.children = Append(@, child),
                                                  !.items = Tail(@)]),
                            maxDepth)
       ELSE LET item == Head(f.items)
            IN IF item.type = "folders"
               THEN IF Expands(f.depth, maxDepth)
                    THEN [stack |-> Append(stack, TreeFrame(item.id, f.depth + 1)),
                          next |-> "contents"]
                    ELSE Advance([stack EXCEPT ![n] =
                                    [f EXCEPT !.children = Append(@, Placeholder(item)),
                                              !.items = Tail(@)]],
                                 maxDepth)
               ELSE Advance([stack EXCEPT ![n] =
                               [f EXCEPT !.fileCount = @ + 1, !.items = Tail(@)]],
                            maxDepth)

\* ---- one invocation of the tool-call handler ----
ToolStatuses == {200, 204} \cup HintStatuses \cup {418}

\* the frame of an invocation: the requests it has issued are in log, the
\* status and body of the last answer in resp, what the first request
\* returned in raw, the last ApsApiError raised by apsDmRequest in apiErr
NewFrame(name, args, world) ==
    [pc |-> "start", name |-> name, args |-> args, world |-> world,
     maxDepth |-> ClampDepth(args.max_depth),
     exch |-> 0, treq |-> 0, log |-> <<>>, stage |-> "none", req |-> None,
     resp |-> None, raw |-> None, apiErr |-> None, stack |-> <<>>, res |-> None]

\* handleTool returns or throws; the handler makes a result of it
Finish(f, outcome) ==
    [f EXCEPT !.pc = "done", !.stage = "none", !.req = None, !.res = Handler(outcome)]

\* apsDmRequest up to its await of fetch, called by a tool (part_003, lines 132-170)
Issue(f, stage, method, path) ==
    IF RejectsPath(path)
    THEN Finish(f, Thrown(Error(IF ParseURL(path).ok THEN "foreign host" ELSE "Invalid URL")))
    ELSE [f EXCEPT !.pc = "api", !.stage = stage,
                   !.req = [method |-> method, url |-> TargetURL(path)],
                   !.log = Append(@, [stage |-> stage, method |-> method,
                                      host |-> TargetURL(path).host,
                                      pathname |-> TargetURL(path).pathname])]

\* handleTool from the return of token() to its next await
AfterToken(f) ==
    IF f.name = "aps_get_token" THEN Finish(f, Returned(ok(Message("token obtained"))))
    ELSE IF PostCheck(f.name, f.args).kind = "reject"
         THEN Finish(f, Returned(fail(Message(PostCheck(f.name, f.args).text))))
    ELSE IF f.name = "aps_get_folder_tree"
         THEN Issue([f EXCEPT !.stack = <<TreeFrame(f.args.folder_id.text, 0)>>],
                    "contents", "GET",
                    ContentsPath(f.args.project_id.text, f.args.folder_id.text))
    ELSE Issue(f, "first", FirstRequest(f.name, f.args).method, FirstRequest(f.name, f.args).path)

\* the hosts a frame has sent the token to
HostsOf(f) == {f.log[i].host : i \in 1..Len(f.log)}

\* index.ts, lines 1166-1176 and handleTool up to its first await
ToolCall(name, args, world) ==
    /\ tool.pc = "idle"
    /\ LET f == NewFrame(name, args, world)
           pre == PreCheck(name, args)
       IN IF pre.kind = "reject"
          THEN /\ tool' = Finish(f, Returned(fail(Message(pre.text))))
               /\ UNCHANGED <<nextToken, sent>>
          ELSE IF pre.kind = "throw"
          THEN /\ tool' = Finish(f, Thrown(Error(pre.error)))
               /\ UNCHANGED <<nextToken, sent>>
          ELSE IF ~NeedsToken(name)
          THEN /\ tool' = Finish(f, Returned(ok(Message("documentation"))))
               /\ UNCHANGED <<nextToken, sent>>
          ELSE IF ~env
          THEN /\ tool' = Finish(f, Thrown(Error("APS_CLIENT_ID and APS_CLIENT_SECRET are required")))
               /\ UNCHANGED <<nextToken, sent>>
          ELSE IF CacheHit(cachedToken, EffectiveScope(Absent), now)
          THEN /\ tool' = AfterToken(f)
               /\ sent' = sent \cup HostsOf(tool')
               /\ UNCHANGED nextToken
          ELSE /\ tool' = [f EXCEPT !.pc = "token", !.exch = 1, !.treq = nextToken]
               /\ nextToken' = nextToken + 1
               /\ UNCHANGED sent
    /\ UNCHANGED <<now, cachedToken, tokCalls, lastDone, dmCall, sessVars, env, summary>>

\* part_003, lines 101-107, then handleTool up to its next await
ToolTokenOk(expires_in) ==
    /\ tool.pc = "token"
    /\ cachedToken' = NewEntry(AccessToken(tool.treq, EffectiveScope(Absent), now, expires_in),
                               now, expires_in, EffectiveScope(Absent))
    /\ tool' = AfterToken(tool)
    /\ sent' = sent \cup HostsOf(tool')
    /\ UNCHANGED <<now, tokCalls, nextToken, lastDone, dmCall, sessVars, env, summary>>

\* part_003, lines 96-99: the exchange answered with a non-success status
ToolTokenFail(status, body) ==
    /\ tool.pc = "token"
    /\ tool' = Finish(tool, Thrown(Error("APS token failed")))
    /\ UNCHANGED <<now, tokenVars, dmVars, sessVars, env, summary>>

\* part_003, line 90: the fetch of the exchange rejects
ToolTokenRejects ==
    /\ tool.pc = "token"
    /\ tool' = Finish(tool, Thrown(Error("fetch failed")))
    /\ UNCHANGED <<now, tokenVars, dmVars, sessVars, env, summary>>

\* the displayName a folder lookup yields, Absent when the answer has none
LookupName(r) == IF r.kind = "parsed" THEN Str(<<"display name">>) ELSE Absent

\* json(summarize...(raw)) and the result of aps_get_folder_contents
Summary(name, raw, folderName) ==
    [what |-> "summary", of |-> name, raw |-> raw, folderName |-> folderName]

\* handleTool from the settling of an apsDmRequest call to its next await;
\* r is what the call returns or throws
Continue(f, r) ==
    LET failed == r.kind \in {"ApsApiError", "thrown"}
        err == IF r.kind = "ApsApiError" THEN r ELSE Error("fetch failed")
        g == IF r.kind = "ApsApiError" THEN [f EXCEPT !.apiErr = r] ELSE f
    IN CASE f.stage = "first" ->
              IF failed THEN Finish(g, Thrown(err))
              ELSE IF f.name = "aps_get_folder_contents"
                   THEN Issue([g EXCEPT !.raw = r], "name", "GET",
                              FolderPath(f.args.project_id.text, f.args.folder_id.text))
              ELSE Finish(g, Returned(ok(Summary(f.name, r, Absent))))
         [] f.stage = "name" /\ f.name = "aps_get_folder_contents" ->
              Finish(g, Returned(ok(Summary(f.name, f.raw,
                                            IF failed THEN Absent ELSE LookupName(r)))))
         [] f.stage = "name" /\ f.name = "aps_get_folder_tree" ->
              Finish(g, Returned(ok(TreeNode(f.stack[1],
                        IF ~failed /\ LookupName(r).given THEN LookupName(r).text
                        ELSE f.args.folder_id.text))))
         [] f.stage = "contents" ->
              IF failed THEN Finish(g, Thrown(err))
              ELSE LET n == Len(f.stack)
                       data == IF r.kind = "parsed" THEN f.world[f.stack[n].id] ELSE <<>>
                       adv == Advance([f.stack EXCEPT ![n].items = data], f.maxDepth)
                       h == [g EXCEPT !.stack = adv.stack, !.raw = IF n = 1 THEN r ELSE @]
                   IN IF adv.next = "contents"
                      THEN Issue(h, "contents", "GET",
                                 ContentsPath(f.args.project_id.text,
                                              adv.stack[Len(adv.stack)].id))
                      ELSE Issue(h, "name", "GET",
                                 FolderPath(f.args.project_id.text, f.args.folder_id.text))

\* part_003, lines 170-190: the resource API answers the request in flight
ToolApiResponse(status, ct, body) ==
    /\ tool.pc = "api"
    /\ tool' = Continue([tool EXCEPT !.resp = [status |-> status, body |-> body]],
                        DmResult(tool.req.method, tool.req.url, status, ct, body))
    /\ sent' = sent \cup HostsOf(tool')
    /\ UNCHANGED <<now, tokenVars, dmCall, sessVars, env, summary>>

\* part_003, line 170: the fetch of the request in flight rejects
ToolApiRejects ==
    /\ tool.pc = "api"
    /\ tool' = Continue([tool EXCEPT !.resp = None], [kind |-> "thrown", error |-> "network"])
    /\ sent' = sent \cup HostsOf(tool')
    /\ UNCHANGED <<now, tokenVars, dmCall, sessVars, env, summary>>

\* one invocation, started with an empty or a filled token slot, with or
\* without the credentials in the environment
InitTool ==
    /\ now = 0
    /\ cachedToken \in {None, NewEntry(AccessToken(1, DEFAULT_SCOPE, 0, 4), 0, 4, DEFAULT_SCOPE)}
    /\ tokCalls = [c \in Calls |-> IdleFrame]
    /\ nextToken = 2
    /\ lastDone = 0
    /\ DmInit
    /\ SessInit
    /\ tool = IdleFrame
    /\ env \in BOOLEAN
    /\ summary = IdleFrame

NextTool ==
    \/ \E name \in ToolNames : \E args \in ArgsOf(name) :
          \E world \in IF name = "aps_get_folder_tree" THEN Worlds ELSE {NoFolders} :
             ToolCall(name, args, world)
    \/ \E e \in ExpiresIns : ToolTokenOk(e)
    \/ \E st \in Statuses, b \in Bodies : ToolTokenFail(st, b)
    \/ ToolTokenRejects
    \/ \E st \in ToolStatuses, b \in ToolBodies :
       \E ct \in {Str(<<"application", "/", "json">>), Str(<<"text", "/", "plain">>)} :
          ToolApiResponse(st, ct, b)
    \/ ToolApiRejects

SpecTool == InitTool /\ [][NextTool]_vars

\* ---- the summarizers (aps-helpers.ts, lines 70-233; part_005, lines 120-167) ----
\* A value that JSON.parse returns is a record tagged with its kind: null, a
\* number, a string (its text), a boolean (bool), an array (its items) or an
\* object (its fields).  Reading a property of null or undefined throws a
\* TypeError; each summarizer below names the reads that can.

\* v?.key, and v.key for a v other than null and undefined
Get(v, key) ==
    IF v.kind = "object" /\ key \in DOMAIN v.fields THEN v.fields[key] ELSE Undefined

\* v ?? default
Coalesce(v, default) == IF v.kind \in {"null", "undefined"} THEN default ELSE v

\* aps-helpers.ts, lines 70-84.  h.attributes (line 74) throws when h is null.
summarizeHubs(raw) ==
    LET inData == Get(raw, "data")
        data == IF inData.kind = "array" THEN inData.items ELSE <<>>
        hub(h) ==
           LET attrs == Get(h, "attributes")
               ext == Get(attrs, "extension")
           IN [name |-> Coalesce(Get(attrs, "name"), [kind |-> "string", text |-> <<"(unknown)">>]),
               id |-> Get(h, "id"),
               type |-> Coalesce(Get(ext, "type"),
                                 Coalesce(Get(h, "type"), [kind |-> "string", text |-> <<>>])),
               region |-> Coalesce(Get(attrs, "region"), [kind |-> "string", text |-> <<"US">>])]
    IN IF \E i \in 1..Len(data) : data[i].kind \in {"null", "undefined"}
       THEN Thrown([kind |-> "TypeError", message |-> "Cannot read properties of null"])
       ELSE Returned([hubs |-> [i \in 1..Len(data) |-> hub(data[i])]])

\* part_005, lines 120-167.  issue.customAttributes (line 123) throws when
\* raw is null, ca.attributeDefinitionId (line 125) when an element is.
\* The fields left out are read as title is: (issue.x) ?? default.
summarizeIssueDetail(raw) ==
    LET issue == raw
        ca == Get(issue, "customAttributes")
        linked == Get(issue, "linkedDocuments")
        watchers == Get(issue, "watchers")
        customAttrs ==
           IF ca.kind = "array"
           THEN [kind |-> "array",
                 items |-> [i \in 1..Len(ca.items) |->
                    [id |-> Coalesce(Get(ca.items[i], "attributeDefinitionId"),
                                     [kind |-> "string", text |-> <<>>]),
                     value |-> Get(ca.items[i], "value")]]]
           ELSE Undefined
    IN IF \/ issue.kind \in {"null", "undefined"}
          \/ ca.kind = "array" /\ \E i \in 1..Len(ca.items) : ca.items[i].kind \in {"null", "undefined"}
       THEN Thrown([kind |-> "TypeError", message |-> "Cannot read properties of null"])
       ELSE Returned([id |-> Get(issue, "id"),
                      displayId |-> Coalesce(Get(issue, "displayId"), [kind |-> "number", number |-> 0]),
                      title |-> Coalesce(Get(issue, "title"), [kind |-> "string", text |-> <<>>]),
                      customAttributes |-> customAttrs,
                      linkedDocumentCount |-> IF linked.kind = "array" THEN Len(linked.items) ELSE 0,
                      watchers |-> IF watchers.kind = "array" THEN watchers ELSE Undefined])

\* line 179 without the toLowerCase() of the filter element
MatchesFilterCaseSensitive(fe, ext) == (IF fe # <<>> /\ Head(fe) = "." THEN Tail(fe) ELSE fe) = ext

\* aps-helpers.ts, line 179: fe.replace(/^\./, "").toLowerCase() === ext
MatchesFilter(fe, ext) ==
    ToLowerCase(IF fe # <<>> /\ Head(fe) = "." THEN Tail(fe) ELSE fe) = ext

\* aps-helpers.ts, lines 137-233.  inc.type (line 153) and item.attributes
\* (line 162) throw on a null element, name.includes (line 175) on a
\* displayName that is neither a string nor missing.  size_mb,
\* version_number, the dates and total_size_mb are formatted copies of
\* attributes and are left out.
summarizeFolderContents(raw, options) ==
    LET inData == Get(raw, "data")
        data == IF inData.kind = "array" THEN inData.items ELSE <<>>
        inIncluded == Get(raw, "included")
        included == IF inIncluded.kind = "array" THEN inIncluded.items ELSE <<>>
        IsText(v, t) == v.kind = "string" /\ v.text = t
        \* versionMap.get(id): the attributes of the last version with that id
        versionsOf(id) ==
           {i \in 1..Len(included) : /\ IsText(Get(included[i], "type"), <<"versions">>)
                                     /\ Get(included[i], "id").kind = "string"
                                     /\ Get(included[i], "id").text = id.text}
        versionAttrs(id) ==
           IF id.kind = "string" /\ id.text # <<>> /\ versionsOf(id) # {}
           THEN Coalesce(Get(included[CHOOSE i \in versionsOf(id) : \A j \in versionsOf(id) : j <= i],
                             "attributes"),
                         [kind |-> "object", fields |-> [none |-> Undefined]])
           ELSE Undefined
        attrsOf(item) == Get(item, "attributes")
        hidden(item) == LET h == Get(attrsOf(item), "hidden") IN h.kind = "boolean" /\ h.bool
        skipped(item) == options.excludeHidden /\ hidden(item)
        nameOf(item) == Coalesce(Get(attrsOf(item), "displayName"),
                                 [kind |-> "string", text |-> <<"(unknown)">>])
        \* name.includes(".") ? name.split(".").pop().toLowerCase() : "unknown"
        extOf(name) ==
           IF \E i \in 1..Len(name) : name[i] = "."
           THEN LET last == CHOOSE i \in 1..Len(name) :
                               name[i] = "." /\ \A j \in (i + 1)..Len(name) : name[j] # "."
                IN ToLowerCase(SubSeq(name, last + 1, Len(name)))
           ELSE <<"unknown">>
        filteredOut(ext) ==
           /\ options.filterExtensions.given
           /\ Len(options.filterExtensions.list) > 0
           /\ ~\E i \in 1..Len(options.filterExtensions.list) :
                  MatchesFilter(options.filterExtensions.list[i], ext)
        keptFolders == SelectSeq(data, LAMBDA item :
                          IsText(Get(item, "type"), <<"folders">>) /\ ~skipped(item))
        keptFiles == SelectSeq(data, LAMBDA item :
                          /\ IsText(Get(item, "type"), <<"items">>)
                          /\ ~skipped(item)
                          /\ ~filteredOut(extOf(nameOf(item).text)))
        folderEntry(item) ==
           [name |-> nameOf(item), id |-> Get(item, "id"), hidden |-> hidden(item)]
        fileEntry(item) ==
           LET tipVersionId == Get(Get(Get(Get(item, "relationships"), "tip"), "data"), "id")
           IN [name |-> nameOf(item).text,
               item_id |-> Get(item, "id"),
               version_id |-> tipVersionId,
               type |-> extOf(nameOf(item).text),
               size_bytes |-> Get(versionAttrs(tipVersionId), "storageSize"),
               hidden |-> hidden(item)]
        folders == [i \in 1..Len(keptFolders) |-> folderEntry(keptFolders[i])]
        files == [i \in 1..Len(keptFiles) |-> fileEntry(keptFiles[i])]
        keys == {<<".">> \o files[i].type : i \in 1..Len(files)}
        fileTypes == [k \in keys |-> Cardinality({i \in 1..Len(files) : <<".">> \o files[i].type = k})]
    IN IF \/ \E i \in 1..Len(included) : included[i].kind \in {"null", "undefined"}
          \/ \E i \in 1..Len(data) : data[i].kind \in {"null", "undefined"}
          \/ \E i \in 1..Len(data) : /\ IsText(Get(data[i], "type"), <<"items">>)
                                     /\ ~skipped(data[i])
                                     /\ nameOf(data[i]).kind # "string"
       THEN Thrown([kind |-> "TypeError", message |-> "Cannot read properties of null"])
       ELSE Returned([summary |-> [total_items |-> Len(folders) + Len(files),
                                   folder_count |-> Len(folders),
                                   file_count |-> Len(files),
                                   file_types |-> fileTypes],
                      folders |-> folders,
                      files |-> files])

\* one call of a summarizer with a value the forwarder can return: what
\* JSON.parse gives for a body, or the marker {ok, status}
InitSummary ==
    LET Null == [kind |-> "null"]
        Num(n) == [kind |-> "number", number |-> n]
        Text(t) == [kind |-> "string", text |-> t]
        Bool(b) == [kind |-> "boolean", bool |-> b]
        Arr(items) == [kind |-> "array", items |-> items]
        Obj(fields) == [kind |-> "object", fields |-> fields]
        Lists(S) == UNION {[1..n -> S] : n \in 0..MaxItems}
        Marker == Obj([ok |-> Bool(TRUE), status |-> Num(204)])
        Hubs == {Null,
                 Obj([id |-> Text(<<"b", ".", "x">>)]),
                 Obj([id |-> Text(<<"b", ".", "x">>), type |-> Text(<<"hubs">>),
                      attributes |-> Obj([name |-> Text(<<"hub">>), region |-> Text(<<"EMEA">>),
                                          extension |-> Obj([type |-> Text(<<"hubs", ":", "bim360">>)])])])}
        HubRaws == {Null, Num(7), Text(<<"x">>), Marker, Obj([data |-> Num(7)])}
                      \cup {Obj([data |-> Arr(l)]) : l \in Lists(Hubs)}
        Attrs == {Null, Obj([attributeDefinitionId |-> Text(<<"x">>), value |-> Num(7)]),
                  Obj([value |-> Null])}
        IssueRaws == {Null, Num(7), Marker, Obj([id |-> Text(<<"x">>), title |-> Null]),
                      Obj([id |-> Text(<<"x">>), customAttributes |-> Num(7),
                           linkedDocuments |-> Arr(<<Null, Null>>), watchers |-> Arr(<<Text(<<"x">>)>>)])}
                        \cup {Obj([id |-> Text(<<"x">>), customAttributes |-> Arr(l)]) : l \in Lists(Attrs)}
        Item(type, id, attributes) ==
           Obj([type |-> Text(<<type>>), id |-> Text(<<id>>), attributes |-> attributes,
                relationships |-> Obj([tip |-> Obj([data |-> Obj([id |-> Text(<<"v", id>>)])])])])
        Items == {Null,
                  Item("folders", "d", Obj([displayName |-> Text(<<"d">>), hidden |-> Bool(TRUE)])),
                  Item("items", "1", Obj([displayName |-> Text(<<"a", ".", "b", ".", "rvt">>)])),
                  Item("items", "2", Obj([displayName |-> Text(<<"b", ".", "RVT">>), hidden |-> Bool(TRUE)])),
                  Item("items", "3", Obj([displayName |-> Text(<<"c", ".", "dwg">>)])),
                  Obj([type |-> Text(<<"items">>), id |-> Text(<<"4">>)]),
                  Item("items", "5", Obj([displayName |-> Num(7)]))}
        Included == {Undefined, Arr(<<Null>>),
                     Arr(<<Obj([type |-> Text(<<"versions">>), id |-> Text(<<"v", "1">>),
                                attributes |-> Obj([storageSize |-> Num(7)])])>>)}
        FolderRaws == {Null, Marker, Obj([data |-> Text(<<"x">>)])}
                         \cup {Obj([data |-> Arr(l), included |-> inc]) : l \in Lists(Items), inc \in Included}
        Filters == {Absent, [given |-> TRUE, list |-> <<>>],
                    [given |-> TRUE, list |-> <<<<".", "rvt">>>>],
                    [given |-> TRUE, list |-> <<<<"RVT">>, <<"unknown">>>>]}
    IN /\ now = 0
       /\ TokenInit
       /\ DmInit
       /\ SessInit
       /\ tool = IdleFrame
       /\ env = TRUE
       /\ summary \in
             {[pc |-> "called", fn |-> "summarizeHubs", raw |-> r] : r \in HubRaws}
             \cup {[pc |-> "called", fn |-> "summarizeIssueDetail", raw |-> r] : r \in IssueRaws}
             \cup {[pc |-> "called", fn |-> "summarizeFolderContents", raw |-> r,
                    options |-> [filterExtensions |-> f, excludeHidden |-> x]]
                      : r \in FolderRaws, f \in Filters, x \in BOOLEAN}

SummarizeHubs ==
    /\ summary.pc = "called"
    /\ summary.fn = "summarizeHubs"
    /\ summary' = [summary EXCEPT !.pc = "done"] @@ [outcome |-> summarizeHubs(summary.raw)]
    /\ UNCHANGED <<now, tokenVars, dmVars, sessVars, tool, env>>

SummarizeIssueDetail ==
    /\ summary.pc = "called"
    /\ summary.fn = "summarizeIssueDetail"
    /\ summary' = [summary EXCEPT !.pc = "done"] @@ [outcome |-> summarizeIssueDetail(summary.raw)]
    /\ UNCHANGED <<now, tokenVars, dmVars, sessVars, tool, env>>

SummarizeFolderContents ==
    /\ summary.pc = "called"
    /\ summary.fn = "summarizeFolderContents"
    /\ summary' = [summary EXCEPT !.pc = "done"]
                     @@ [outcome |-> summarizeFolderContents(summary.raw, summary.options)]
    /\ UNCHANGED <<now, tokenVars, dmVars, sessVars, tool, env>>

NextSummary ==
    \/ SummarizeHubs
    \/ SummarizeIssueDetail
    \/ SummarizeFolderContents

SpecSummary == InitSummary /\ [][NextSummary]_vars

\* the invocation ended with the failure result of an argument check
ValidationFailure(f) ==
    \/ /\ PreCheck(f.name, f.args).kind = "reject"
       /\ f.res = fail(Message(PreCheck(f.name, f.args).text))
    \/ /\ PostCheck(f.name, f.args).kind = "reject"
       /\ f.res = fail(Message(PostCheck(f.name, f.args).text))

\* C15: an invocation that ends with the rejection of a caller-supplied
\* argument (identifier, path, required field, update without fields) has
\* issued no token exchange and no resource-API request.
C15_ValidationBeforeNetwork ==
    (tool.pc = "done" /\ ValidationFailure(tool)) => (tool.exch = 0 /\ tool.log = <<>>)

\* the path has a segment that is exactly '..'
TraversalSegment(path) ==
    /\ IsString(path)
    /\ \E i \in 1..(Len(path.text) - 1) :
          /\ path.text[i] = "." /\ path.text[i + 1] = "."
          /\ (i = 1 \/ path.text[i - 1] \in {"/", "//"})
          /\ (i + 1 = Len(path.text) \/ path.text[i + 2] \in {"/", "//"})

\* C16: a call of aps_dm_request or aps_issues_request whose path has a
\* '..' segment ends with the failure result of path validation; it issues
\* no token exchange and never reaches apsDmRequest.
C16_TraversalRejected ==
    (tool.pc # "idle" /\ tool.name \in RawTools /\ TraversalSegment(tool.args.path))
      => /\ tool.pc = "done"
         /\ tool.res = fail(Message("path must not contain '..'"))
         /\ tool.exch = 0
         /\ tool.log = <<>>

\* a/../b was passed to aps_dm_request and rejected
C16_Witness ==
    /\ tool.pc = "done"
    /\ tool.name = "aps_dm_request"
    /\ tool.args.path = Str(<<"seg", "/", ".", ".", "/", "seg">>)
    /\ "isError" \in DOMAIN tool.res

\* the two shapes of a tool result: a text payload, alone or with the error flag
IsToolResult(r) ==
    \/ DOMAIN r = {"content"}
    \/ DOMAIN r = {"content", "isError"} /\ r.isError = TRUE

\* C17: whatever the tool name, the arguments and the answers of the token
\* endpoint and of the resource API, an invocation that has ended has ended
\* with a success payload or with a failure payload that carries the error
\* flag; no exception leaves the handler.
C17_NoExceptionEscapes ==
    /\ tool.pc \in {"idle", "token", "api", "done"}
    /\ tool.pc = "done" => IsToolResult(tool.res)

\* the rejection of a fetch, thrown by apsDmRequest, was turned into a failure result
C17_Witness ==
    /\ tool.pc = "done"
    /\ tool.log # <<>>
    /\ tool.res = fail(Message("Error: fetch failed"))

\* apsDmRequest raised an ApsApiError in the invocation that has ended
ApiErrorRaised == tool.pc = "done" /\ tool.apiErr # None

\* the request the error belongs to, and whether it was a folder-name lookup
\* made inside try/catch (index.ts 835-847, aps-helpers.ts 320-334)
LastRequest == tool.log[Len(tool.log)]
BestEffortLookup == LastRequest.stage = "name"

\* the error carries the status, the method, the URL's pathname and the raw body
ErrorCarriesAnswer ==
    /\ tool.resp.status \notin 200..299
    /\ tool.apiErr.statusCode = tool.resp.status
    /\ tool.apiErr.method = LastRequest.method
    /\ tool.apiErr.path = LastRequest.pathname
    /\ tool.apiErr.responseBody = tool.resp.body

ClaimedHintStatuses == {401, 403, 404, 409, 429, 500, 503}

\* the result is a failure whose diagnostic names status, method and path
DiagnosticOf(e) ==
    /\ DOMAIN tool.res = {"content", "isError"}
    /\ tool.res.content.what = "diagnostic"
    /\ tool.res.content.ctx.error = <<e.statusCode, statusText(e.statusCode)>>
    /\ tool.res.content.ctx.method = e.method
    /\ tool.res.content.ctx.path = e.path

\* C18: a non-success status of the resource API makes apsDmRequest raise an
\* error carrying status, method, path and raw body, and the invocation ends
\* with a failure result whose diagnostic contains status, method, path and
\* the body, plus likely-cause and fix text for 401, 403, 404, 409, 429, 500
\* and 503.
C18_ApiErrorDiagnosed ==
    ApiErrorRaised =>
      LET e == tool.apiErr
          ctx == tool.res.content.ctx
      IN /\ ErrorCarriesAnswer
         /\ DiagnosticOf(e)
         /\ e.responseBody # "" =>
              /\ ctx.api_error.given
              /\ \/ ctx.api_error = [given |-> TRUE, parsed |-> e.responseBody]
                 \/ ctx.api_error = [given |-> TRUE, text |-> e.responseBody]
         /\ e.statusCode \in ClaimedHintStatuses => (ctx.likely_cause.given /\ ctx.fix.given)

\* C18, amended: the error carries status, method, pathname and raw body.
\* Unless it was raised by a best-effort folder-name lookup, whose errors are
\* dropped and leave a success result, the invocation ends with a failure
\* result whose diagnostic holds the status with its text, the method and
\* the path; the body as parsed JSON, or its first 500 characters when it is
\* not JSON, or nothing when it is empty; and likely-cause and fix text
\* exactly for 400, 401, 403, 404, 409, 429, 500 and 503.
C18_ApiErrorDiagnosedOrDropped ==
    ApiErrorRaised =>
      LET e == tool.apiErr
          ctx == tool.res.content.ctx
      IN /\ ErrorCarriesAnswer
         /\ BestEffortLookup => DOMAIN tool.res = {"content"}
         /\ ~BestEffortLookup =>
              /\ DiagnosticOf(e)
              /\ ctx.api_error =
                   IF e.responseBody = "" THEN Absent
                   ELSE IF e.responseBody = "json" THEN [given |-> TRUE, parsed |-> "json"]
                   ELSE IF e.responseBody = "longtext"
                        THEN [given |-> TRUE, text |-> "first 500 characters of longtext"]
                   ELSE [given |-> TRUE, text |-> e.responseBody]
              /\ ctx.likely_cause.given <=> e.statusCode \in ClaimedHintStatuses \cup {400}
              /\ ctx.fix.given <=> e.statusCode \in ClaimedHintStatuses \cup {400}

\* a 404 with a JSON body on the first request of a tool became a diagnostic with hints
C18_Witness ==
    /\ ApiErrorRaised
    /\ ~BestEffortLookup
    /\ tool.apiErr.statusCode = 404
    /\ tool.apiErr.responseBody = "json"
    /\ tool.res.content.ctx.likely_cause.given

\* an invocation of aps_get_folder_tree whose depth is 1 and that reached buildFolderTree
TreeAtDepthOne ==
    /\ tool.pc # "idle"
    /\ tool.name = "aps_get_folder_tree"
    /\ tool.maxDepth = [number |-> 1, half |-> FALSE]
    /\ tool.log # <<>>

\* the folders in the contents listing of the root, each as a leaf without
\* children and without a file count
RootFolders == SelectSeq(tool.world[tool.args.folder_id.text], LAMBDA it : it.type = "folders")
LeafOf(it) ==
    [name |-> IF it.displayName.given THEN it.displayName.text ELSE <<"(unknown)">>,
     id |-> it.id, type |-> "folder"]
RootLeaves == [i \in 1..Len(RootFolders) |-> LeafOf(RootFolders[i])]

\* the tree was built and returned
TreeReturned == tool.pc = "done" /\ DOMAIN tool.res = {"content"}

\* the pathnames of the two requests about the root folder
RootContents ==
    TargetURL(ContentsPath(tool.args.project_id.text, tool.args.folder_id.text)).pathname
RootLookup ==
    TargetURL(FolderPath(tool.args.project_id.text, tool.args.folder_id.text)).pathname

\* C20: with max_depth = 1 the tree that is returned has every child folder
\* of the root as a leaf placeholder, and exactly one resource-API call was
\* issued.
C20_OneCallAtDepthOne ==
    (TreeAtDepthOne /\ TreeReturned) =>
       /\ tool.res.content.children.given => tool.res.content.children.list = RootLeaves
       /\ Len(tool.log) = 1

\* C20, amended: with max_depth = 1 the only requests are the contents
\* request of the root and, after it, one best-effort lookup of the root
\* folder's name; no request is made for a child folder, and the tree that
\* is returned has every child folder of the listing as a leaf placeholder.
C20_RootRequestsOnlyAtDepthOne ==
    TreeAtDepthOne =>
       /\ Len(tool.log) <= 2
       /\ tool.log[1].pathname = RootContents
       /\ Len(tool.log) = 2 => tool.log[2].pathname = RootLookup
       /\ TreeReturned =>
            /\ Len(tool.log) = 2
            /\ tool.res.content.children =
                 IF tool.raw.kind = "parsed" /\ Len(RootFolders) > 0
                 THEN [given |-> TRUE, list |-> RootLeaves]
                 ELSE Absent
            /\ tool.res.content.id = tool.args.folder_id.text

\* a root with two sub-folders was listed with max_depth = 1 and both came back as leaves
C20_Witness ==
    /\ TreeAtDepthOne
    /\ TreeReturned
    /\ Len(RootFolders) = 2
    /\ tool.res.content.children.given
    /\ tool.res.content.children.list = RootLeaves

\* a response of the resource API with a success status has been handled
SuccessAnswered ==
    /\ dmCall.pc = "done"
    /\ dmCall.resp # None
    /\ dmCall.resp.status \in 200..299

\* the content-type header names JSON, in any letter case
JsonContentType(h) == h.given /\ \E i \in 1..Len(h.text) : h.text[i] \in {"json", "JSON"}

\* C19: on a success status apsDmRequest does not throw; a 204 or an empty
\* body gives the marker {ok, status}; a parsable body with a JSON
\* content-type is returned parsed; an unparsable body with a JSON
\* content-type, and any body with another content-type, is returned as
\* {ok, status, body: raw text}.
C19_SuccessNeverThrows ==
    SuccessAnswered =>
      LET r == dmCall.resp
          marker == [kind |-> "marker", ok |-> TRUE, status |-> r.status]
          raw == [kind |-> "text", ok |-> TRUE, status |-> r.status, body |-> r.body]
      IN /\ dmCall.res.kind \notin {"thrown", "ApsApiError"}
         /\ (r.status = 204 \/ r.body = "") => dmCall.res = marker
         /\ (r.status # 204 /\ r.body = "json" /\ JsonContentType(r.ct))
               => dmCall.res = [kind |-> "parsed", value |-> r.body]
         /\ (r.status # 204 /\ r.body = "garbled" /\ JsonContentType(r.ct))
               => dmCall.res = raw
         /\ (r.status # 204 /\ r.body # "" /\ ~JsonContentType(r.ct))
               => dmCall.res = raw

\* a JSON content-type in upper case with a body that does not parse came back as raw text
C19_Witness ==
    /\ SuccessAnswered
    /\ dmCall.resp.ct = Str(<<"Application", "/", "JSON">>)
    /\ dmCall.resp.body = "garbled"
    /\ dmCall.res.kind = "text"

\* ---- getApsToken and apsDmRequest calls interleaved ----
\* The callers of index.ts await getApsToken and then call apsDmRequest; two
\* invocations overlap freely, so any token call may run beside a request.
\* The scopes are the default and one other; the requests are one to the API
\* and one that is refused, answered with a success or an error status.
NextCache ==
    \/ \E c \in Calls, s \in {Absent, Str(<<" ", "w", " ">>)} : GetApsTokenCall(c, s)
    \/ \E c \in Calls, e \in ExpiresIns : TokenResponseOk(c, e)
    \/ \E c \in Calls, st \in Statuses, b \in Bodies : TokenResponseFail(c, st, b)
    \/ \E c \in Calls : TokenFetchRejects(c)
    \/ \E p \in {<<"seg">>, <<"http", "s", ":", "//", EVIL_HOST, "/", "seg">>} : DmCall("GET", p)
    \/ \E st \in {200, 404} : DmResponse(st, Str(<<"application", "/", "json">>), "json")
    \/ DmFetchRejects
    \/ DmReturn
    \/ Tick

SpecCache == Init /\ [][NextCache]_vars

\* a token call's exchange is answered with a success status in this step
ExchangeSucceeds(c) ==
    /\ tokCalls[c].pc = "fetching"
    /\ tokCalls'[c].pc = "done"
    /\ tokCalls'[c].res.kind = "token"

\* C25: the token slot is one value, empty or one entry with a token, an
\* expiry and a scope; it changes only in a step in which a
\* client-credentials exchange succeeds, and then to the entry of that
\* exchange; cache hits, failed exchanges and apsDmRequest leave it as it
\* is, and a filled slot is never emptied.
C25_SlotChangedOnlyByExchange ==
    [][/\ cachedToken' # None => DOMAIN cachedToken' = {"token", "expiresAt", "scope"}
       /\ cachedToken' # cachedToken =>
            \E c \in Calls : /\ ExchangeSucceeds(c)
                             /\ cachedToken'.token = tokCalls'[c].res.token
                             /\ cachedToken'.scope = tokCalls[c].scope
       /\ dmCall' # dmCall => cachedToken' = cachedToken
       /\ cachedToken # None => cachedToken' # None]_vars

\* the slot is filled, a later exchange has failed and a request to the API
\* has been answered with an error status
C25_Witness ==
    /\ cachedToken # None
    /\ \E c \in Calls : tokCalls[c].pc = "done" /\ tokCalls[c].res.kind = "error"
                          /\ cachedToken.token.id < tokCalls[c].req
    /\ dmCall.pc = "done" /\ dmCall.res.kind = "ApsApiError"

\* the text holds no markup character: no <, >, quote or apostrophe, and
\* every & opens one of the five entities
NoRawMarkup(s) ==
    \A i \in 1..Len(s) :
       /\ s[i] \notin {"<", ">", "\"", "'"}
       /\ s[i] = "&" => /\ i + 2 <= Len(s)
                        /\ s[i + 1] \in {"amp", "lt", "gt", "quot", "#39"}
                        /\ s[i + 2] = ";"

\* C24: after a callback with an error, the page the listener wrote and the
\* message of the rejection both hold the description in escaped form, not
\* the raw text.
C24_DescriptionEscaped ==
    \A a \in Attempts :
       att[a].pc = "active" =>
          /\ (att[a].page # None /\ att[a].page.h2 = "Authorization failed")
                => NoRawMarkup(att[a].page.text)
          /\ (att[a].promise.state = "rejected" /\ att[a].promise.by = "error")
                => NoRawMarkup(att[a].promise.msg.text)

\* C26: an attempt started while the listener of another attempt is bound to
\* the callback port fails at bind time as an error of that attempt only:
\* its promise is rejected, the other attempts stay as they were and the
\* process goes on.
C26_BindFailureIsLocal ==
    [][\A a \in Attempts :
          (att[a].pc = "idle" /\ att'[a].pc = "active" /\ PortTaken) =>
             /\ att'[a].promise.state = "rejected"
             /\ \A b \in Attempts \ {a} : att'[b] = att[b]
             /\ ~crashed']_vars

\* an invocation of aps_get_folder_tree that reached buildFolderTree
TreeBuilding ==
    /\ tool.pc # "idle"
    /\ tool.name = "aps_get_folder_tree"
    /\ tool.log # <<>>

\* depth k against the limit d, a whole number or a whole number and a half
Below(k, d) == 2 * k < 2 * d.number + (IF d.half THEN 1 ELSE 0)
NotDeeper(k, d) == 2 * k <= 2 * d.number + (IF d.half THEN 1 ELSE 0)
AtLimit(k, d) == ~d.half /\ k = d.number

\* the folders at a depth less than d among items, which lie at depth k, and
\* below them, as the API serves them
RECURSIVE FoldersBelow(_, _, _, _)
FoldersBelow(world, items, k, d) ==
    IF items = <<>> THEN 0
    ELSE (IF Head(items).type = "folders" /\ Below(k, d)
          THEN 1 + FoldersBelow(world, world[Head(items).id], k + 1, d)
          ELSE 0)
         + FoldersBelow(world, Tail(items), k, d)

\* a node of the result whose contents were requested carries a file count
Expanded(node) == "file_count" \in DOMAIN node

\* the number of expanded nodes among nodes and below them
RECURSIVE ExpandedNodes(_)
ExpandedNodes(nodes) ==
    IF nodes = <<>> THEN 0
    ELSE (IF Expanded(Head(nodes))
          THEN 1 + (IF Head(nodes).children.given
                    THEN ExpandedNodes(Head(nodes).children.list) ELSE 0)
          ELSE 0)
         + ExpandedNodes(Tail(nodes))

\* nodes, which lie at depth k, and all nodes below them: none deeper than d,
\* expanded when above d, a leaf placeholder when at d
RECURSIVE DepthsRight(_, _, _)
DepthsRight(nodes, k, d) ==
    \A i \in 1..Len(nodes) :
       /\ NotDeeper(k, d)
       /\ Below(k, d) => Expanded(nodes[i])
       /\ AtLimit(k, d) => DOMAIN nodes[i] = {"name", "id", "type"}
       /\ (Expanded(nodes[i]) /\ nodes[i].children.given)
             => DepthsRight(nodes[i].children.list, k + 1, d)

\* the contents requests an invocation has issued
ContentsRequests == Len(SelectSeq(tool.log, LAMBDA q : q.stage = "contents"))

\* C21: the depth d the tool uses is within 1..5, and 3 when max_depth is
\* absent; buildFolderTree issues one contents request per folder at a
\* depth less than d and none deeper, so never more than the folders the
\* API serves above depth d, which bounds the build also on a graph with a
\* cycle; in the tree it returns no node lies deeper than d, the nodes above
\* d are expanded and the folders found at depth d are leaf placeholders.
C21_DepthBoundsTheBuild ==
    TreeBuilding =>
       LET d == tool.maxDepth
           root == tool.args.folder_id.text
       IN /\ NotDeeper(1, d) /\ NotDeeper(d.number, [number |-> 5, half |-> FALSE])
          /\ ~d.half \/ d.number < 5
          /\ ~tool.args.max_depth.given => d = [number |-> 3, half |-> FALSE]
          /\ ContentsRequests <= 1 + FoldersBelow(tool.world, tool.world[root], 1, d)
          /\ TreeReturned =>
                /\ DepthsRight(<<tool.res.content>>, 0, d)
                /\ ContentsRequests = ExpandedNodes(<<tool.res.content>>)

\* a summarizer has run
Summarized == summary.pc = "done"

\* the list a summary holds under the name the summarizer gives it
ListOf(result) ==
    IF summary.fn = "summarizeHubs" THEN result.hubs
    ELSE IF summary.fn = "summarizeFolderContents" THEN result.folders \o result.files
    ELSE <<>>

\* the raw value has no array where the summarizer looks for its items
ArrayMissing ==
    LET key == IF summary.fn = "summarizeIssueDetail" THEN "customAttributes" ELSE "data"
    IN ~(/\ summary.raw.kind = "object"
         /\ key \in DOMAIN summary.raw.fields
         /\ summary.raw.fields[key].kind = "array")

\* C22: a summarizer returns a summary and does not throw, whatever raw
\* value it is handed: null, a non-object, a missing array, null list
\* elements, missing nested fields; an absent array becomes an empty list.
C22_SummarizersNeverThrow ==
    Summarized =>
       /\ summary.outcome.kind = "returned"
       /\ ArrayMissing => ListOf(summary.outcome.result) = <<>>

\* summarizeFolderContents returned a summary for a call with a non-empty
\* extension filter
FilteredSummary ==
    /\ Summarized
    /\ summary.fn = "summarizeFolderContents"
    /\ summary.outcome.kind = "returned"
    /\ summary.options.filterExtensions.given
    /\ summary.options.filterExtensions.list # <<>>

\* the items of the listing that was summarized
Listing ==
    IF summary.raw.kind = "object" /\ "data" \in DOMAIN summary.raw.fields
       /\ summary.raw.fields.data.kind = "array"
    THEN summary.raw.fields.data.items ELSE <<>>

\* the extension of a file name: what follows its last dot, "unknown"
\* without a dot; letter case folded
FoldCase(t) == [i \in 1..Len(t) |-> IF t[i] = "RVT" THEN "rvt" ELSE t[i]]
RECURSIVE AfterLastDot(_)
AfterLastDot(t) ==
    IF t = <<>> THEN <<>>
    ELSE IF \E i \in 2..Len(t) : t[i] = "." THEN AfterLastDot(Tail(t))
    ELSE IF Head(t) = "." THEN Tail(t) ELSE t
Extension(item) ==
    LET named == /\ "attributes" \in DOMAIN item.fields
                 /\ "displayName" \in DOMAIN item.fields.attributes.fields
        name == IF named THEN item.fields.attributes.fields.displayName.text ELSE <<"(unknown)">>
    IN IF \E i \in 1..Len(name) : name[i] = "." THEN FoldCase(AfterLastDot(name)) ELSE <<"unknown">>

\* the file item matches an element of the filter, ignoring case and a leading dot
IsFileItem(item) == item.kind = "object" /\ item.fields.type.text = <<"items">>
MatchesF(item) ==
    \E i \in 1..Len(summary.options.filterExtensions.list) :
       LET fe == summary.options.filterExtensions.list[i]
       IN FoldCase(IF fe # <<>> /\ Head(fe) = "." THEN Tail(fe) ELSE fe) = Extension(item)
IsHidden(item) ==
    /\ "attributes" \in DOMAIN item.fields
    /\ "hidden" \in DOMAIN item.fields.attributes.fields
    /\ item.fields.attributes.fields.hidden.bool

\* the ids of the files of the summary and of items of the listing, in order
FileIds == [i \in 1..Len(summary.outcome.result.files) |-> summary.outcome.result.files[i].item_id]
ItemIds(items) == [i \in 1..Len(items) |-> items[i].fields.id]

\* the counts of file_types, summed
RECURSIVE SumOf(_)
SumOf(counts) ==
    IF DOMAIN counts = {} THEN 0
    ELSE LET k == CHOOSE k \in DOMAIN counts : TRUE
         IN counts[k] + SumOf([j \in DOMAIN counts \ {k} |-> counts[j]])

\* file_types has a key for the extensions of the kept files only, each
\* with the number of kept files of that extension, and the totals add up
CountsAgree ==
    LET result == summary.outcome.result
        files == result.files
    IN /\ DOMAIN result.summary.file_types = {<<".">> \o files[i].type : i \in 1..Len(files)}
       /\ \A k \in DOMAIN result.summary.file_types :
             result.summary.file_types[k]
                = Cardinality({i \in 1..Len(files) : <<".">> \o files[i].type = k})
       /\ \A i \in 1..Len(files) :
             \E j \in 1..Len(Listing) :
                IsFileItem(Listing[j]) /\ Listing[j].fields.id = files[i].item_id
                   /\ files[i].type = Extension(Listing[j])
       /\ result.summary.folder_count = Len(result.folders)
       /\ result.summary.file_count = Len(files)
       /\ result.summary.total_items = result.summary.folder_count + result.summary.file_count
       /\ SumOf(result.summary.file_types) = result.summary.file_count

\* C23: with a non-empty extension filter F the files list holds exactly
\* the file items whose extension matches an element of F, and file_types
\* and the totals count the kept files.
C23_FilterKeepsMatchingFiles ==
    FilteredSummary =>
       /\ FileIds = ItemIds(SelectSeq(Listing, LAMBDA item : IsFileItem(item) /\ MatchesF(item)))
       /\ CountsAgree

\* C23, amended: with a non-empty extension filter F the files list holds
\* exactly the file items whose extension matches an element of F and that
\* exclude_hidden does not drop (a hidden item is dropped when the option
\* is set); file_types and the totals count the kept files.
C23_FilterKeepsMatchingVisibleFiles ==
    FilteredSummary =>
       /\ FileIds = ItemIds(SelectSeq(Listing, LAMBDA item :
                        /\ IsFileItem(item)
                        /\ MatchesF(item)
                        /\ ~(summary.options.excludeHidden /\ IsHidden(item))))
       /\ CountsAgree

\* a listing with two .rvt files, one of them named in capitals, and a .dwg
\* file was summarized with the filter [".rvt"]: both .rvt files were kept
\* and file_types has no key for .dwg
C23_Witness ==
    /\ FilteredSummary
    /\ summary.options.filterExtensions.list = <<<<".", "rvt">>>>
    /\ Len(Listing) = 3
    /\ \E i \in 1..3 : IsFileItem(Listing[i]) /\ Extension(Listing[i]) = <<"dwg">>
    /\ Len(summary.outcome.result.files) = 2
    /\ DOMAIN summary.outcome.result.summary.file_types = {<<".", "rvt">>}
    /\ summary.outcome.result.summary.file_types[<<".", "rvt">>] = 2

Next ==
    \/ \E c \in Calls, s \in ScopeArgs : GetApsTokenCall(c, s)
    \/ \E c \in Calls, e \in ExpiresIns : TokenResponseOk(c, e)
    \/ \E c \in Calls, st \in Statuses, b \in Bodies : TokenResponseFail(c, st, b)
    \/ \E c \in Calls : TokenFetchRejects(c)
    \/ Tick

Spec == Init /\ [][Next]_vars
====
